---- MODULE Spec2Model ----
(***************************************************************************)
(* Model of the PicoFabric programmer (sw/programmer/program.py): the      *)
(* frame codec of USBSerialTransport (writeBlock / readBlock), the command *)
(* transport (writeCommand / readCommand, the 8-bit message counter), the  *)
(* upload sequence of FabricTransport.programDevice and the discovery      *)
(* service FabricService (listDevices, the device cache).                  *)
(*                                                                         *)
(* Byte strings are sequences of integers 0..255.  Python's 0-based        *)
(* offsets are kept in the operators that take an offset; TLA+ sequences   *)
(* are 1-based, so data[k] of the source is data[k+1] here.                *)
(***************************************************************************)
EXTENDS Integers, Sequences, FiniteSets, TLC

VARIABLES
    \* ---- one USBSerialTransport and the API call running on it ----
    counter,        \* s.counter, the message counter of the transport
    ser,            \* s.ser: the timeouts of the channel; history: the last
                    \* argument of setFastTimeoutMode
    rx,             \* bytes waiting in the serial input buffer
    pc,             \* "idle" | "send" | "await" | "reply" | "done"
    op,             \* the FabricTransport method that is running
    pd,             \* the locals of programDevice
    cmd,            \* the command object handed to writeCommand
    ret,            \* what writeCommand returned or raised
    result,         \* what the method returned or raised
    progress,       \* the LogLevel.Progress observations of this call
    tx,             \* history: the frames written to the channel by this call
    rxlog,          \* history: the outcome of every readBlock of this call
    ncmd,           \* history: number of writeCommand calls of this call
    wire,           \* history: counter byte of every frame written
    sent,           \* history: command bytes of the last two frames written
    rxraw,          \* history: the bytes the channel yielded to the latest read
    exchange,       \* history: state of the exchange of the last frame written
    callsLeft,      \* number of API calls the caller will still make
    \* ---- the frame codec on its own ----
    fdata,          \* the payload handed to writeBlock
    serial,         \* the bytes on the channel between writer and reader
    tamper,         \* what happened to the bytes in transit
    fstep,          \* "off" | "new" | "written" | "rejected" | "read"
    fresult,        \* what readBlock returned or raised
    \* ---- the discovery service (FabricService) and its surroundings ----
    deviceCache,    \* s.deviceCache: uri -> FabricDeviceInfo
    endpoints,      \* how the device behind each serial port behaves
    system,         \* platform.system()
    sop,            \* the FabricService method that is running
    ld,             \* the locals of listDevices
    sresult,        \* what the method returned or raised
    probes,         \* history: the queries made by this call
    nextObj,        \* identity of the next FabricDeviceInfo object created
    returned,       \* history: what the listDevices calls so far returned
    scallsLeft,     \* number of service calls the caller will still make
    channels,       \* the serial channels that are open, and how the
                    \* interpreter finalizes objects
    \* ---- byte arithmetic on its own ----
    uint8sum        \* the arguments of an _adduint8 call, and what it returned

tvars == <<counter, ser, rx, pc, op, pd, cmd, ret, result, progress,
           tx, rxlog, ncmd, wire, sent, rxraw, exchange, callsLeft>>
fvars == <<fdata, serial, tamper, fstep, fresult>>
svars == <<deviceCache, endpoints, system, sop, ld, sresult, probes, nextObj,
           returned, scallsLeft, channels>>
avars == <<uint8sum>>
vars  == <<counter, ser, rx, pc, op, pd, cmd, ret, result, progress,
           tx, rxlog, ncmd, wire, sent, rxraw, exchange, callsLeft,
           fdata, serial, tamper, fstep, fresult,
           deviceCache, endpoints, system, sop, ld, sresult, probes, nextObj,
           returned, scallsLeft, channels, uint8sum>>

(***************************************************************************)
(* Bounds of the model.                                                    *)
(***************************************************************************)
MaxPayloadLen == 3      \* frame codec: every payload over FrameBytes up to this length
MaxBlocks == 2          \* uploads: bitstreams of up to MaxBlocks full blocks plus one byte
MaxCommands == 258      \* methods called on one transport under SpecLink
MaxDirectCalls == 3     \* writeCommand calls made on one transport under SpecCommand
MaxServiceCalls == 2    \* methods called on one FabricService under SpecService

(***************************************************************************)
(* Program constants.                                                      *)
(***************************************************************************)
HeaderMagic == 27                   \* 0x1b
MaxWriteBlockSize == 65535 - 16     \* 0xffff-16
BlockSize == 4096 - 32              \* blockSz = 4096-32

\* class FabricCommands
QueryDeviceCmd == 1
ProgramDeviceCmd == 2
ProgramBlockCmd == 3
ProgramCompleteCmd == 4
QueryBitstreamFlashCmd == 5
ClearBitstreamFlashCmd == 7
RebootProgrammerCmd == 8

None == [kind |-> "None"]

\* the int n as a value a method returns
int(n) == [kind |-> "int", n |-> n]

(***************************************************************************)
(* Byte arithmetic and FEncoding.                                          *)
(***************************************************************************)
Byte == 0..255

\* sum of s[lo..hi]; the source's loops "for i in data: crc = crc + i" add
\* the bytes left to right, the sum is split in halves here only to keep
\* the evaluation depth logarithmic (addition is associative).
RECURSIVE SumRange(_, _, _)
SumRange(s, lo, hi) ==
    IF lo > hi THEN 0
    ELSE IF lo = hi THEN s[lo]
    ELSE LET mid == (lo + hi) \div 2
         IN SumRange(s, lo, mid) + SumRange(s, mid + 1, hi)

ByteSum(s) == SumRange(s, 1, Len(s))

\* Python slice s[lo:hi] (0-based, hi exclusive, clipped to the sequence)
PySlice(s, lo, hi) ==
    LET h == IF hi > Len(s) THEN Len(s) ELSE hi
    IN IF lo >= h THEN <<>> ELSE SubSeq(s, lo + 1, h)

_adduint8_mod255(a, b) ==
    LET res == a + b IN IF res > 255 THEN res % 255 ELSE res

_adduint8(a, b) ==
    LET res == a + b
    IN IF res > 255 THEN (res % 255) - 1 ELSE res

encodeInt16(value) == << value % 256, (value \div 256) % 256 >>

encodeInt32(value) ==
    << value % 256, (value \div 256) % 256,
       (value \div 65536) % 256, (value \div 16777216) % 256 >>

decodeInt16(data, offset) == data[offset + 1] + 256 * data[offset + 2]

getInt32(data, offset) ==
    data[offset + 1] + 256 * data[offset + 2]
        + 65536 * data[offset + 3] + 16777216 * data[offset + 4]

(***************************************************************************)
(* Frame codec: USBSerialTransport.writeBlock / readBlock.                 *)
(***************************************************************************)
\* writeBlock(ser, data): the bytes it writes to ser, or the exception
writeBlock_payloadLength(data) ==
    IF Len(data) >= MaxWriteBlockSize
    THEN [raised |-> TRUE, exc |-> "Max packet size", out |-> <<>>]
    ELSE [raised |-> FALSE, exc |-> "",
          out |-> <<HeaderMagic>> \o encodeInt16(Len(data))
                    \o data \o << ByteSum(data) % 256 >>]

writeBlock(data) ==
    IF Len(data) >= MaxWriteBlockSize
    THEN [raised |-> TRUE, exc |-> "Max packet size", out |-> <<>>]
    ELSE [raised |-> FALSE, exc |-> "",
          out |-> <<HeaderMagic>> \o encodeInt16(Len(data) + 1)
                    \o data \o << ByteSum(data) % 256 >>]

\* readBlock(ser) when `avail` are the bytes the channel yields before the
\* read timeout.  used = number of bytes taken from the channel.
\*   kind "data"           : return data[0:len(data)-1]
\*   kind "timeout"        : return None
\*   kind "AssertionError" : assert magic == HeaderMagic failed
\*   kind "IndexError"     : sz = 0, data[len(data)-1] on the empty list
\*   kind "CrcFail"        : raise Exception("Crc fail ...")
readBlock_noverify(avail) ==
    IF Len(avail) < 1 THEN [kind |-> "timeout", data |-> <<>>, used |-> 0]
    ELSE IF avail[1] # HeaderMagic
    THEN [kind |-> "AssertionError", data |-> <<>>, used |-> 1]
    ELSE IF Len(avail) < 3
    THEN [kind |-> "timeout", data |-> <<>>, used |-> Len(avail)]
    ELSE
      LET sz == decodeInt16(SubSeq(avail, 2, 3), 0)
      IN IF Len(avail) < 3 + sz
         THEN [kind |-> "timeout", data |-> <<>>, used |-> Len(avail)]
         ELSE IF sz = 0
         THEN [kind |-> "IndexError", data |-> <<>>, used |-> 3]
         ELSE [kind |-> "data", data |-> SubSeq(avail, 4, 3 + sz - 1),
               used |-> 3 + sz]

\* a read that hands back the bytes it has when the body stops short
readBlock_partial(avail) ==
    IF /\ Len(avail) >= 3
       /\ avail[1] = HeaderMagic
       /\ Len(avail) < 3 + decodeInt16(SubSeq(avail, 2, 3), 0)
    THEN [kind |-> "data", data |-> SubSeq(avail, 4, Len(avail)),
          used |-> Len(avail)]
    ELSE readBlock_noverify(avail)

\* a read that drops a leading byte that is not the magic and reads on
readBlock_resync(avail) ==
    IF Len(avail) >= 1 /\ avail[1] # HeaderMagic
    THEN readBlock_noverify(Tail(avail))
    ELSE readBlock_noverify(avail)

readBlock(avail) ==
    IF Len(avail) < 1 THEN [kind |-> "timeout", data |-> <<>>, used |-> 0]
    ELSE IF avail[1] # HeaderMagic
    THEN [kind |-> "AssertionError", data |-> <<>>, used |-> 1]
    ELSE IF Len(avail) < 3
    THEN [kind |-> "timeout", data |-> <<>>, used |-> Len(avail)]
    ELSE
      LET sz == decodeInt16(SubSeq(avail, 2, 3), 0)
      IN IF Len(avail) < 3 + sz
         THEN [kind |-> "timeout", data |-> <<>>, used |-> Len(avail)]
         ELSE IF sz = 0
         THEN [kind |-> "IndexError", data |-> <<>>, used |-> 3]
         ELSE
           LET data == SubSeq(avail, 4, 3 + sz)
               crc == SumRange(data, 1, sz - 1) % 256
               expected_crc == data[sz] % 256
           IN IF expected_crc # crc
              THEN [kind |-> "CrcFail", data |-> <<>>, used |-> 3 + sz]
              ELSE [kind |-> "data", data |-> SubSeq(data, 1, sz - 1),
                    used |-> 3 + sz]

(***************************************************************************)
(* The frame codec on its own: one payload is written with writeBlock,     *)
(* the bytes travel over the channel and are read back with readBlock.     *)
(***************************************************************************)
FrameBytes == {0, 1, 255}

\* a long payload with varying bytes
Filler(n) == [i \in 1..n |-> (i * 7 + 3) % 256]

FramePayloads ==
    UNION { [1..n -> FrameBytes] : n \in 0..MaxPayloadLen }
        \cup { Filler(MaxWriteBlockSize - 1), Filler(MaxWriteBlockSize) }

\* positions of the payload that the channel may corrupt (every position of
\* a short payload, the first and the last of a long one)
TamperPositions(n) ==
    IF n <= MaxPayloadLen + 1 THEN 1..n ELSE {1, n}

FrameIdle ==
    /\ fdata = <<>>
    /\ serial = <<>>
    /\ tamper = "none"
    /\ fstep = "off"
    /\ fresult = None

\* writeBlock( ser, data )
FrameWrite ==
    /\ fstep = "new"
    /\ LET w == writeBlock(fdata)
       IN /\ serial' = w.out
          /\ fstep' = IF w.raised THEN "rejected" ELSE "written"
    /\ UNCHANGED <<fdata, tamper, fresult>>
    /\ UNCHANGED tvars
    /\ UNCHANGED svars
    /\ UNCHANGED avars

\* the channel changes one payload byte of the frame to another value
FrameTamperPayload ==
    /\ fstep = "written"
    /\ tamper = "none"
    /\ \E pos \in TamperPositions(Len(fdata)) :
         \E b \in FrameBytes \ {serial[3 + pos]} :
            serial' = [serial EXCEPT ![3 + pos] = b]
    /\ tamper' = "payload"
    /\ UNCHANGED <<fdata, fstep, fresult>>
    /\ UNCHANGED tvars
    /\ UNCHANGED svars
    /\ UNCHANGED avars

\* lengths at which the channel may stop delivering a frame of n bytes (every
\* length of a short frame; inside the header and the body of a long one)
CutLengths(n) ==
    IF n <= MaxPayloadLen + 4 THEN 0..(n - 1) ELSE {0, 1, 2, 3, n - 1}

\* the channel delivers only the first k bytes of the frame before the
\* read timeout expires: ser.read( n ) returns fewer bytes than asked for
FrameTruncate ==
    /\ fstep = "written"
    /\ tamper = "none"
    /\ \E k \in CutLengths(Len(serial)) : serial' = SubSeq(serial, 1, k)
    /\ tamper' = "truncated"
    /\ UNCHANGED <<fdata, fstep, fresult>>
    /\ UNCHANGED tvars
    /\ UNCHANGED svars
    /\ UNCHANGED avars

\* the first byte that arrives is not the magic: the magic of the frame is
\* changed, or a stray byte arrives in front of the frame
FrameTamperMagic ==
    /\ fstep = "written"
    /\ tamper = "none"
    /\ \E b \in FrameBytes :
         \/ serial' = [serial EXCEPT ![1] = b] /\ tamper' = "magic"
         \/ serial' = <<b>> \o serial /\ tamper' = "stray"
    /\ UNCHANGED <<fdata, fstep, fresult>>
    /\ UNCHANGED tvars
    /\ UNCHANGED svars
    /\ UNCHANGED avars

\* readBlock( ser ) on the bytes that arrived
FrameRead ==
    /\ fstep = "written"
    /\ fresult' = readBlock(serial)
    /\ fstep' = "read"
    /\ UNCHANGED <<fdata, serial, tamper>>
    /\ UNCHANGED tvars
    /\ UNCHANGED svars
    /\ UNCHANGED avars

NextFrame ==
    \/ FrameWrite
    \/ FrameTamperPayload
    \/ FrameTruncate
    \/ FrameTamperMagic
    \/ FrameRead

(***************************************************************************)
(* Protocol codec: the toBytes of the commands, the fromBytes of the       *)
(* responses, compressData / decompressData.                               *)
(***************************************************************************)
\* zlib.compress( data, level=9 ) and zlib.decompress are library calls.
\* The model keeps the two-byte zlib stream header of level 9 (0x78 0xda)
\* and carries the deflated body as the bytes themselves: the stream has a
\* length and decompress inverts compress, nothing else is assumed of it.
zlib_compress(data) == <<120, 218>> \o data

zlib_decompress(data) == PySlice(data, 2, Len(data))

compressData_littleEndian(data) ==
    LET sz == Len(data)
        szBytes == << sz % 256, (sz \div 256) % 256 >>
        cdata == zlib_compress(data)
    IN szBytes \o cdata

compressData(data) ==
    LET sz == Len(data)
        szBytes == << (sz \div 256) % 256, sz % 256 >>
        cdata == zlib_compress(data)
    IN szBytes \o cdata

decompressData(data) == zlib_decompress(PySlice(data, 2, Len(data)))

FQueryDevicePacket_toBytes == <<0>>

FProgramDevicePacket_toBytes(saveToFlash, totalSize, blockCount, bitstreamCrc) ==
    <<saveToFlash>> \o encodeInt32(totalSize) \o encodeInt32(blockCount)
        \o encodeInt16(bitstreamCrc)

FProgramCompletePacket_toBytes == <<>>

ClearBitstreamFlash_toBytes == <<>>

RebootProgrammer_toBytes == <<>>

QueryBitstreamFlash_toBytes == <<>>

FQueryProgramBlock_toBytes_swapped(blockId, compressedBlockSz, blockSz, blockCrc, bitStreamBlock) ==
    encodeInt16(blockId) \o encodeInt16(blockSz) \o encodeInt16(compressedBlockSz)
        \o <<blockCrc>> \o bitStreamBlock

FQueryProgramBlock_toBytes(blockId, compressedBlockSz, blockSz, blockCrc, bitStreamBlock) ==
    encodeInt16(blockId) \o encodeInt16(compressedBlockSz) \o encodeInt16(blockSz)
        \o <<blockCrc>> \o bitStreamBlock

IndexError == [kind |-> "raise", type |-> "IndexError", msg |-> "index out of range"]

\* responseClass().fromBytes( rdata ), with cmd and counter set by readCommand
FGeneric_Response_fromBytes_nocopy(rcmd, rcnt, data) ==
    IF Len(data) < 4 THEN IndexError
    ELSE [kind |-> "response", class |-> "FGeneric_Response",
          cmd |-> 0, counter |-> 0,
          errorCode |-> getInt32(data, 0)]

FGeneric_Response_fromBytes(rcmd, rcnt, data) ==
    IF Len(data) < 4 THEN IndexError
    ELSE [kind |-> "response", class |-> "FGeneric_Response",
          cmd |-> rcmd, counter |-> rcnt,
          errorCode |-> getInt32(data, 0)]

FQueryDevicePacket_Response_fromBytes(rcmd, rcnt, data) ==
    IF Len(data) < 13 THEN IndexError
    ELSE [kind |-> "response", class |-> "FQueryDevicePacket_Response",
          cmd |-> rcmd, counter |-> rcnt,
          deviceState |-> data[1],
          fpgaDeviceId |-> getInt32(data, 1),
          progDeviceId |-> [i \in 1..8 |-> data[(i - 1) + 1 + 4 + 1]]]

QueryBitstreamFlash_Response_fromBytes(rcmd, rcnt, data) ==
    IF Len(data) < 17 THEN IndexError
    ELSE [kind |-> "response", class |-> "QueryBitstreamFlash_Response",
          cmd |-> rcmd, counter |-> rcnt,
          errorCode |-> getInt32(data, 0),
          programOnStartup |-> getInt32(data, 4),
          blockCnt |-> getInt32(data, 8),
          bitStreamSz |-> getInt32(data, 12),
          crc |-> data[17]]

fromBytes(responseClass, rcmd, rcnt, data) ==
    CASE responseClass = "FGeneric_Response" ->
            FGeneric_Response_fromBytes(rcmd, rcnt, data)
      [] responseClass = "FQueryDevicePacket_Response" ->
            FQueryDevicePacket_Response_fromBytes(rcmd, rcnt, data)
      [] responseClass = "QueryBitstreamFlash_Response" ->
            QueryBitstreamFlash_Response_fromBytes(rcmd, rcnt, data)

\* hex(i)[2:] as a string of characters
HexDigit ==
    <<"0", "1", "2", "3", "4", "5", "6", "7",
      "8", "9", "a", "b", "c", "d", "e", "f">>

hex(i) ==
    IF i < 16 THEN << HexDigit[i + 1] >>
    ELSE << HexDigit[(i \div 16) + 1], HexDigit[(i % 16) + 1] >>

RECURSIVE uidOf(_, _)
uidOf(progDeviceId, n) ==
    IF n = 0 THEN <<>> ELSE uidOf(progDeviceId, n - 1) \o hex(progDeviceId[n])

(***************************************************************************)
(* Command transport: readPacket, readCommand, writeCommand.               *)
(***************************************************************************)
Raise(type, msg) == [kind |-> "raise", type |-> type, msg |-> msg]

Return(value) == [kind |-> "return", value |-> value]

\* readCommand( responseClass ) when readBlock gave b: the response object
\* or the exception that leaves writeCommand
readCommand(b, responseClass) ==
    CASE b.kind = "AssertionError" -> Raise("AssertionError", "magic")
      [] b.kind = "IndexError" -> IndexError
      [] b.kind = "CrcFail" -> Raise("Exception", "Crc fail")
      [] b.kind = "timeout" -> Raise("Exception", "No response")
      [] b.kind = "data" ->
            \* readPacket: data and len(data) >= 2, else (None, None, None)
            IF Len(b.data) >= 2
            THEN LET rcmd == b.data[1]
                     rcnt == b.data[2]
                     rdata == PySlice(b.data, 2, Len(b.data))
                 IN IF rdata = <<>>
                    THEN Raise("Exception", "No response")
                    ELSE fromBytes(responseClass, rcmd, rcnt, rdata)
            ELSE Raise("Exception", "No response")

(***************************************************************************)
(* The device end of the channel: what ser.read can yield before the read  *)
(* timeout, as an answer to the frame with command id `id`, counter `c`.   *)
(***************************************************************************)
ErrorCodes == {0, 5, 258}

UnkownCmd == 255

\* the device frames its answers as writeBlock does
Framed(packet) == writeBlock(packet).out

ResponseBodies(responseClass) ==
    CASE responseClass = "FGeneric_Response" ->
            { encodeInt32(e) : e \in ErrorCodes } \cup { <<>>, <<7>> }
      [] responseClass = "FQueryDevicePacket_Response" ->
            { <<st>> \o encodeInt32(4660) \o id :
                st \in {0, 1}, id \in { <<1, 2, 3, 4, 5, 6, 7, 8>>,
                                        <<0, 16, 171, 255, 9, 10, 128, 15>> } }
                \cup { <<st>> \o encodeInt32(16909060) \o <<1, 2, 3, 4, 5, 6, 7, 8>> :
                          st \in {2, 255} }
                \cup { <<>>, <<1, 52, 18>> }
      [] responseClass = "QueryBitstreamFlash_Response" ->
            { encodeInt32(e) \o encodeInt32(1) \o encodeInt32(26)
                \o encodeInt32(104090) \o <<77>> : e \in {0, 5} }
                \cup { <<>>, encodeInt32(0) }

OkBody(responseClass) ==
    CASE responseClass = "FGeneric_Response" -> encodeInt32(0)
      [] responseClass = "FQueryDevicePacket_Response" ->
            <<1>> \o encodeInt32(4660) \o <<1, 2, 3, 4, 5, 6, 7, 8>>
      [] responseClass = "QueryBitstreamFlash_Response" ->
            encodeInt32(0) \o encodeInt32(1) \o encodeInt32(26)
                \o encodeInt32(104090) \o <<77>>

DeviceReplies(id, c, responseClass) ==
    LET ok == Framed(<<id, c>> \o OkBody(responseClass))
        n == Len(ok)
    IN { Framed(<<id, c>> \o b) : b \in ResponseBodies(responseClass) }
         \cup { Framed(<<UnkownCmd, (c + 1) % 256>> \o OkBody(responseClass)) }
         \cup { <<>>,                                   \* the device is silent
                SubSeq(ok, 1, 2),                       \* ... stops in the length
                SubSeq(ok, 1, n - 1),                   \* ... stops in the body
                [ok EXCEPT ![n] = (ok[n] + 1) % 256],   \* wrong checksum
                [ok EXCEPT ![1] = 0],                   \* wrong magic
                <<HeaderMagic, 0, 0>>,                  \* length 0
                Framed(<<>>) }                          \* empty payload

(***************************************************************************)
(* USBSerialTransport.init, and the caller of the transport.               *)
(***************************************************************************)
\* SERIAL_FAST_TIMEOUT = 0.1 and SERIAL_NORMAL_TIMEOUT = 2.5 seconds, in
\* milliseconds
SERIAL_FAST_TIMEOUT == 100

SERIAL_NORMAL_TIMEOUT == 2500

\* init(): s.timeout = 10 (seconds; in milliseconds here), s.counter = 0
USBSerialTransport_init == [timeout |-> 10 * 1000, counter |-> 0]

\* initTransport(): serial.Serial( timeout=s.timeout, write_timeout=s.timeout ).
\* isFash is history: the argument of the last setFastTimeoutMode call.
initTransport ==
    [timeout |-> USBSerialTransport_init.timeout,
     write_timeout |-> USBSerialTransport_init.timeout,
     isFash |-> "never"]

\* setFastTimeoutMode( isFash ) on the channel s_ser
setFastTimeoutMode_readOnly(s_ser, isFash) ==
    [s_ser EXCEPT !.timeout = SERIAL_FAST_TIMEOUT,
                  !.isFash = IF isFash THEN "True" ELSE "False"]

setFastTimeoutMode(s_ser, isFash) ==
    [s_ser EXCEPT !.timeout = SERIAL_FAST_TIMEOUT,
                  !.write_timeout = SERIAL_FAST_TIMEOUT,
                  !.isFash = IF isFash THEN "True" ELSE "False"]

LinkUri == "usbserial://COM6"

PdIdle ==
    [bitstreamData |-> <<>>, saveToFlash |-> FALSE, blockSz |-> 0,
     blockCnt |-> 0, sz |-> 0, i |-> 0, blockId |-> 0, stage |-> "none"]

NoCmd == [id |-> 0, body |-> <<>>, responseClass |-> "None"]

\* a transport that has sent c commands since init(), no call running
\* (the histories start empty)
TransportInit(c, calls) ==
    /\ counter = c % 256
    /\ ser = [initTransport EXCEPT !.isFash = "never"]
    /\ rx = <<>>
    /\ pc = "idle"
    /\ op = "none"
    /\ pd = PdIdle
    /\ cmd = NoCmd
    /\ ret = None
    /\ result = None
    /\ progress = <<>>
    /\ tx = <<>>
    /\ rxlog = <<>>
    /\ ncmd = 0
    /\ wire = <<>>
    /\ sent = <<>>
    /\ rxraw = <<>>
    /\ exchange = IF c = 0 THEN "none" ELSE "answered"
    /\ callsLeft = calls

\* cmd.toBytes() in writeCommand.  The command objects of the API methods
\* are kept with their bytes; a ProgramBlock that a caller builds around a
\* block of blockLen bytes is kept by the length of its block.
cmd_toBytes(c) ==
    IF "body" \in DOMAIN c THEN c.body
    ELSE FQueryProgramBlock_toBytes(0, c.blockLen, c.blockLen, 0, Filler(c.blockLen))

\* writeCommand( cmd, responseClass ) up to the point where it blocks in
\* readCommand or returns
writeCommand_twice ==
    /\ pc = "send"
    /\ LET c == _adduint8(counter, 1)
           packet == <<cmd.id, c>> \o cmd_toBytes(cmd)
           w == writeBlock(packet)
       IN /\ rx' = <<>>
          /\ counter' = c
          /\ ncmd' = ncmd + 1
          /\ IF w.raised
             THEN /\ ret' = Raise("Exception", w.exc)
                  /\ pc' = "reply"
                  /\ UNCHANGED <<tx, wire, sent, exchange>>
             ELSE /\ tx' = Append(Append(tx, w.out), w.out)
                  /\ wire' = Append(wire, w.out[5])
                  /\ sent' = IF sent = <<>> THEN <<w.out[4]>>
                             ELSE <<sent[Len(sent)], w.out[4]>>
                  /\ ret' = None
                  /\ pc' = IF cmd.responseClass # "None" THEN "await" ELSE "reply"
                  /\ exchange' = IF cmd.responseClass # "None"
                                 THEN "awaiting" ELSE "noreply"
    /\ UNCHANGED <<op, pd, cmd, result, progress, rxlog, rxraw, callsLeft>>
    /\ UNCHANGED ser
    /\ UNCHANGED fvars
    /\ UNCHANGED svars
    /\ UNCHANGED avars

writeCommand_noflush ==
    /\ pc = "send"
    /\ LET c == _adduint8(counter, 1)
           packet == <<cmd.id, c>> \o cmd_toBytes(cmd)
           w == writeBlock(packet)
       IN /\ rx' = rx
          /\ counter' = c
          /\ ncmd' = ncmd + 1
          /\ IF w.raised
             THEN /\ ret' = Raise("Exception", w.exc)
                  /\ pc' = "reply"
                  /\ UNCHANGED <<tx, wire, sent, exchange>>
             ELSE /\ tx' = Append(tx, w.out)
                  /\ wire' = Append(wire, w.out[5])
                  /\ sent' = IF sent = <<>> THEN <<w.out[4]>>
                             ELSE <<sent[Len(sent)], w.out[4]>>
                  /\ ret' = None
                  /\ pc' = IF cmd.responseClass # "None" THEN "await" ELSE "reply"
                  /\ exchange' = IF cmd.responseClass # "None"
                                 THEN "awaiting" ELSE "noreply"
    /\ UNCHANGED <<op, pd, cmd, result, progress, rxlog, rxraw, callsLeft>>
    /\ UNCHANGED ser
    /\ UNCHANGED fvars
    /\ UNCHANGED svars
    /\ UNCHANGED avars

writeCommand ==
    /\ pc = "send"
    /\ LET c == _adduint8(counter, 1)
           packet == <<cmd.id, c>> \o cmd_toBytes(cmd)
           w == writeBlock(packet)
       IN /\ rx' = <<>>                     \* flushInput, flushOutput
          /\ counter' = c
          /\ ncmd' = ncmd + 1
          /\ IF w.raised
             THEN /\ ret' = Raise("Exception", w.exc)
                  /\ pc' = "reply"
                  /\ UNCHANGED <<tx, wire, sent, exchange>>
             ELSE /\ tx' = Append(tx, w.out)
                  /\ wire' = Append(wire, w.out[5])
                  /\ sent' = IF sent = <<>> THEN <<w.out[4]>>
                             ELSE <<sent[Len(sent)], w.out[4]>>
                  /\ ret' = None
                  /\ pc' = IF cmd.responseClass # "None" THEN "await" ELSE "reply"
                  /\ exchange' = IF cmd.responseClass # "None"
                                 THEN "awaiting" ELSE "noreply"
    /\ UNCHANGED <<op, pd, cmd, result, progress, rxlog, rxraw, callsLeft>>
    /\ UNCHANGED ser
    /\ UNCHANGED fvars
    /\ UNCHANGED svars
    /\ UNCHANGED avars

\* the blocking read of writeCommand: readCommand( responseClass ) returns
\* or raises once the device has answered or the read has timed out
awaitResponse ==
    /\ pc = "await"
    /\ \E reply \in DeviceReplies(cmd.id, counter, cmd.responseClass) :
         LET avail == rx \o reply
             b == readBlock(avail)
             r == readCommand(b, cmd.responseClass)
         IN /\ rx' = SubSeq(avail, b.used + 1, Len(avail))
            /\ ret' = r
            /\ rxraw' = avail
            /\ rxlog' = Append(rxlog,
                          [frame |-> b.kind, kind |-> r.kind,
                           errorCode |-> IF r.kind = "response"
                                            /\ "errorCode" \in DOMAIN r
                                         THEN r.errorCode ELSE -1])
            /\ exchange' = CASE b.kind = "data" -> "answered"
                             [] b.kind = "timeout" -> "timeout"
                             [] OTHER -> "error"
    /\ pc' = "reply"
    /\ UNCHANGED <<counter, op, pd, cmd, result, progress, tx, ncmd, wire, sent, callsLeft>>
    /\ UNCHANGED ser
    /\ UNCHANGED fvars
    /\ UNCHANGED svars
    /\ UNCHANGED avars

propagate_retry ==
    /\ pc = "reply"
    /\ ret.kind = "raise"
    /\ pc' = "send"
    /\ UNCHANGED <<counter, rx, op, pd, cmd, ret, result, progress, tx, rxlog,
                   ncmd, wire, sent, rxraw, exchange, callsLeft>>
    /\ UNCHANGED ser
    /\ UNCHANGED fvars
    /\ UNCHANGED svars
    /\ UNCHANGED avars

\* no method of FabricTransport catches: an exception of writeCommand leaves
\* the method
propagate_rollback ==
    /\ pc = "reply"
    /\ ret.kind = "raise"
    /\ result' = ret
    /\ pc' = "done"
    /\ counter' = (counter + 255) % 256
    /\ UNCHANGED <<rx, op, pd, cmd, ret, progress, tx, rxlog, ncmd,
                   wire, sent, rxraw, exchange, callsLeft>>
    /\ UNCHANGED ser
    /\ UNCHANGED fvars
    /\ UNCHANGED svars
    /\ UNCHANGED avars

propagate ==
    /\ pc = "reply"
    /\ ret.kind = "raise"
    /\ result' = ret
    /\ pc' = "done"
    /\ UNCHANGED <<counter, rx, op, pd, cmd, ret, progress, tx, rxlog, ncmd,
                   wire, sent, rxraw, exchange, callsLeft>>
    /\ UNCHANGED ser
    /\ UNCHANGED fvars
    /\ UNCHANGED svars
    /\ UNCHANGED avars

(***************************************************************************)
(* FabricTransport.programDevice.                                          *)
(***************************************************************************)
\* the bitstreams the caller uploads: empty, one byte, and around every
\* multiple of the block size up to MaxBlocks blocks
BitstreamSizes ==
    {0, 1} \cup { k * BlockSize + d : k \in 1..MaxBlocks, d \in {-1, 0, 1} }

Bitstreams == { Filler(n) : n \in BitstreamSizes }

\* math.ceil( a / b ) for a >= 0, b > 0
math_floor(a, b) == a \div b

math_ceil(a, b) == (a + b - 1) \div b

DeviceFailed(errorCode) ==
    [kind |-> "raise", type |-> "Exception",
     msg |-> "Device failed to program with code: ", code |-> errorCode]

\* block = bitstreamData[ i : i + blockSz ]
nextBlock_short(p) == PySlice(p.bitstreamData, p.i, p.i + p.blockSz - 1)

nextBlock(p) == PySlice(p.bitstreamData, p.i, p.i + p.blockSz)

\* programDevice( bitstreamData, saveToFlash ) up to its first writeCommand
programDevice ==
    /\ pc = "idle"
    /\ callsLeft > 0
    /\ \E bitstreamData \in Bitstreams, saveToFlash \in BOOLEAN :
         LET blockSz == BlockSize
             blockCnt == math_ceil(Len(bitstreamData), blockSz)
             sz == Len(bitstreamData)
         IN /\ pd' = [bitstreamData |-> bitstreamData, saveToFlash |-> saveToFlash,
                      blockSz |-> blockSz, blockCnt |-> blockCnt, sz |-> sz,
                      i |-> 0, blockId |-> 0, stage |-> "begin"]
            /\ cmd' = [id |-> ProgramDeviceCmd,
                       body |-> FProgramDevicePacket_toBytes(
                                    IF saveToFlash THEN 1 ELSE 0, sz, blockCnt, 0),
                       responseClass |-> "FGeneric_Response"]
    /\ op' = "programDevice"
    /\ pc' = "send"
    /\ callsLeft' = callsLeft - 1
    /\ UNCHANGED <<counter, rx, ret, result, progress, tx, rxlog, ncmd, wire, sent, rxraw, exchange>>
    /\ UNCHANGED ser
    /\ UNCHANGED fvars
    /\ UNCHANGED svars
    /\ UNCHANGED avars

\* the head of the "while True" loop with the locals p: the next block is
\* cut, checksummed, compressed and handed to writeCommand, or the loop is
\* left and ProgramComplete is handed to writeCommand
programLoop(p) ==
    LET block == nextBlock(p)
    IN IF block = <<>>
       THEN /\ pd' = [p EXCEPT !.stage = "complete"]
            /\ cmd' = [id |-> ProgramCompleteCmd,
                       body |-> FProgramCompletePacket_toBytes,
                       responseClass |-> "FGeneric_Response"]
            /\ progress' = progress
            /\ pc' = "send"
       ELSE LET blockCrc == ByteSum(block) % 256
                compressedBlock == compressData(block)
            IN /\ pd' = [p EXCEPT !.blockSz = Len(block), !.stage = "block"]
               /\ cmd' = [id |-> ProgramBlockCmd,
                          body |-> FQueryProgramBlock_toBytes(
                                      p.blockId, Len(compressedBlock), Len(block),
                                      blockCrc, compressedBlock),
                          responseClass |-> "FGeneric_Response"]
               /\ progress' = Append(progress, [done |-> p.i, total |-> p.sz])
               /\ pc' = "send"

\* "if response.errorCode != 0"
deviceRefused_never(r) == FALSE

deviceRefused(r) == r.errorCode # 0

\* "i = i + blockSz; blockId = blockId + 1"
advance_sameId(p) == [p EXCEPT !.i = p.i + p.blockSz]

advance(p) == [p EXCEPT !.i = p.i + p.blockSz, !.blockId = p.blockId + 1]

\* a response with a nonzero errorCode ends the upload
programFailed ==
    /\ result' = DeviceFailed(ret.errorCode)
    /\ pc' = "done"
    /\ UNCHANGED <<pd, cmd, progress>>

\* the response to ProgramDevice came back
programBegun ==
    /\ pc = "reply"
    /\ op = "programDevice"
    /\ pd.stage = "begin"
    /\ ret.kind = "response"
    /\ IF deviceRefused(ret)
       THEN programFailed
       ELSE /\ programLoop([pd EXCEPT !.i = 0, !.blockId = 0])
            /\ UNCHANGED result
    /\ UNCHANGED <<counter, rx, op, ret, tx, rxlog, ncmd, wire, sent, rxraw, exchange, callsLeft>>
    /\ UNCHANGED ser
    /\ UNCHANGED fvars
    /\ UNCHANGED svars
    /\ UNCHANGED avars

\* the response to a ProgramBlock came back
programBlockDone ==
    /\ pc = "reply"
    /\ op = "programDevice"
    /\ pd.stage = "block"
    /\ ret.kind = "response"
    /\ IF deviceRefused(ret)
       THEN programFailed
       ELSE /\ programLoop(advance(pd))
            /\ UNCHANGED result
    /\ UNCHANGED <<counter, rx, op, ret, tx, rxlog, ncmd, wire, sent, rxraw, exchange, callsLeft>>
    /\ UNCHANGED ser
    /\ UNCHANGED fvars
    /\ UNCHANGED svars
    /\ UNCHANGED avars

\* the response to ProgramComplete came back
programCompleted ==
    /\ pc = "reply"
    /\ op = "programDevice"
    /\ pd.stage = "complete"
    /\ ret.kind = "response"
    /\ IF deviceRefused(ret)
       THEN programFailed
       ELSE /\ progress' = Append(progress, [done |-> pd.sz, total |-> pd.sz])
            /\ result' = Return(TRUE)
            /\ pc' = "done"
            /\ UNCHANGED <<pd, cmd>>
    /\ UNCHANGED <<counter, rx, op, ret, tx, rxlog, ncmd, wire, sent, rxraw, exchange, callsLeft>>
    /\ UNCHANGED ser
    /\ UNCHANGED fvars
    /\ UNCHANGED svars
    /\ UNCHANGED avars

(***************************************************************************)
(* FabricTransport.queryDevice, clearFlash, rebootProgrammer and           *)
(* queryBitstreamFlash.                                                    *)
(***************************************************************************)
\* class DeviceStatus
Unkown == "unkown"
StatusExistsAndValid == "ok"

queryDevice ==
    /\ pc = "idle"
    /\ callsLeft > 0
    /\ op' = "queryDevice"
    /\ cmd' = [id |-> QueryDeviceCmd, body |-> FQueryDevicePacket_toBytes,
               responseClass |-> "FQueryDevicePacket_Response"]
    /\ pc' = "send"
    /\ callsLeft' = callsLeft - 1
    /\ UNCHANGED <<counter, rx, pd, ret, result, progress, tx, rxlog, ncmd,
                   wire, sent, rxraw, exchange>>
    /\ UNCHANGED ser
    /\ UNCHANGED fvars
    /\ UNCHANGED svars
    /\ UNCHANGED avars

queryDeviceDone_nonzeroValid ==
    /\ pc = "reply"
    /\ op = "queryDevice"
    /\ ret.kind = "response"
    /\ result' = Return([status |-> IF ret.deviceState # 0
                                    THEN StatusExistsAndValid ELSE Unkown,
                         fpgaDeviceId |-> ret.fpgaDeviceId,
                         uri |-> LinkUri,
                         uid |-> uidOf(ret.progDeviceId, 8)])
    /\ pc' = "done"
    /\ UNCHANGED <<counter, rx, op, pd, cmd, ret, progress, tx, rxlog, ncmd,
                   wire, sent, rxraw, exchange, callsLeft>>
    /\ UNCHANGED ser
    /\ UNCHANGED fvars
    /\ UNCHANGED svars
    /\ UNCHANGED avars

queryDeviceDone ==
    /\ pc = "reply"
    /\ op = "queryDevice"
    /\ ret.kind = "response"
    /\ result' = Return([status |-> IF ret.deviceState = 1
                                    THEN StatusExistsAndValid ELSE Unkown,
                         fpgaDeviceId |-> ret.fpgaDeviceId,
                         uri |-> LinkUri,
                         uid |-> uidOf(ret.progDeviceId, 8)])
    /\ pc' = "done"
    /\ UNCHANGED <<counter, rx, op, pd, cmd, ret, progress, tx, rxlog, ncmd,
                   wire, sent, rxraw, exchange, callsLeft>>
    /\ UNCHANGED ser
    /\ UNCHANGED fvars
    /\ UNCHANGED svars
    /\ UNCHANGED avars

clearFlash_noresponse ==
    /\ pc = "idle"
    /\ callsLeft > 0
    /\ op' = "clearFlash"
    /\ cmd' = [id |-> ClearBitstreamFlashCmd, body |-> ClearBitstreamFlash_toBytes,
               responseClass |-> "None"]
    /\ pc' = "send"
    /\ callsLeft' = callsLeft - 1
    /\ UNCHANGED <<counter, rx, pd, ret, result, progress, tx, rxlog, ncmd,
                   wire, sent, rxraw, exchange>>
    /\ UNCHANGED ser
    /\ UNCHANGED fvars
    /\ UNCHANGED svars
    /\ UNCHANGED avars

clearFlash ==
    /\ pc = "idle"
    /\ callsLeft > 0
    /\ op' = "clearFlash"
    /\ cmd' = [id |-> ClearBitstreamFlashCmd, body |-> ClearBitstreamFlash_toBytes,
               responseClass |-> "FGeneric_Response"]
    /\ pc' = "send"
    /\ callsLeft' = callsLeft - 1
    /\ UNCHANGED <<counter, rx, pd, ret, result, progress, tx, rxlog, ncmd,
                   wire, sent, rxraw, exchange>>
    /\ UNCHANGED ser
    /\ UNCHANGED fvars
    /\ UNCHANGED svars
    /\ UNCHANGED avars

\* "if response: return response.errorCode == 0", and None otherwise
clearFlashDone ==
    /\ pc = "reply"
    /\ op = "clearFlash"
    /\ ret.kind # "raise"
    /\ result' = IF ret.kind = "response"
                 THEN Return(ret.errorCode = 0) ELSE Return(None)
    /\ pc' = "done"
    /\ UNCHANGED <<counter, rx, op, pd, cmd, ret, progress, tx, rxlog, ncmd,
                   wire, sent, rxraw, exchange, callsLeft>>
    /\ UNCHANGED ser
    /\ UNCHANGED fvars
    /\ UNCHANGED svars
    /\ UNCHANGED avars

rebootProgrammer ==
    /\ pc = "idle"
    /\ callsLeft > 0
    /\ op' = "rebootProgrammer"
    /\ cmd' = [id |-> RebootProgrammerCmd, body |-> RebootProgrammer_toBytes,
               responseClass |-> "None"]
    /\ pc' = "send"
    /\ callsLeft' = callsLeft - 1
    /\ UNCHANGED <<counter, rx, pd, ret, result, progress, tx, rxlog, ncmd,
                   wire, sent, rxraw, exchange>>
    /\ UNCHANGED ser
    /\ UNCHANGED fvars
    /\ UNCHANGED svars
    /\ UNCHANGED avars

rebootProgrammerDone ==
    /\ pc = "reply"
    /\ op = "rebootProgrammer"
    /\ ret.kind # "raise"
    /\ result' = Return(TRUE)
    /\ pc' = "done"
    /\ UNCHANGED <<counter, rx, op, pd, cmd, ret, progress, tx, rxlog, ncmd,
                   wire, sent, rxraw, exchange, callsLeft>>
    /\ UNCHANGED ser
    /\ UNCHANGED fvars
    /\ UNCHANGED svars
    /\ UNCHANGED avars

queryBitstreamFlash ==
    /\ pc = "idle"
    /\ callsLeft > 0
    /\ op' = "queryBitstreamFlash"
    /\ cmd' = [id |-> QueryBitstreamFlashCmd, body |-> QueryBitstreamFlash_toBytes,
               responseClass |-> "QueryBitstreamFlash_Response"]
    /\ pc' = "send"
    /\ callsLeft' = callsLeft - 1
    /\ UNCHANGED <<counter, rx, pd, ret, result, progress, tx, rxlog, ncmd,
                   wire, sent, rxraw, exchange>>
    /\ UNCHANGED ser
    /\ UNCHANGED fvars
    /\ UNCHANGED svars
    /\ UNCHANGED avars

queryBitstreamFlashDone ==
    /\ pc = "reply"
    /\ op = "queryBitstreamFlash"
    /\ ret.kind # "raise"
    /\ result' = Return(ret)
    /\ pc' = "done"
    /\ UNCHANGED <<counter, rx, op, pd, cmd, ret, progress, tx, rxlog, ncmd,
                   wire, sent, rxraw, exchange, callsLeft>>
    /\ UNCHANGED ser
    /\ UNCHANGED fvars
    /\ UNCHANGED svars
    /\ UNCHANGED avars

\* the caller sets the timeout mode of the transport between two calls
setFastTimeoutModeCall ==
    /\ pc = "idle"
    /\ callsLeft > 0
    /\ \E isFash \in BOOLEAN : ser' = setFastTimeoutMode(ser, isFash)
    /\ UNCHANGED <<counter, rx, pc, op, pd, cmd, ret, result, progress, tx, rxlog,
                   ncmd, wire, sent, rxraw, exchange, callsLeft>>
    /\ UNCHANGED fvars
    /\ UNCHANGED svars
    /\ UNCHANGED avars

\* the commands a caller hands to writeCommand directly: one with a
\* response, one without, and a ProgramBlock whose block is too large for a
\* frame
DirectCommands ==
    { [id |-> ClearBitstreamFlashCmd, body |-> ClearBitstreamFlash_toBytes,
       responseClass |-> "FGeneric_Response"],
      [id |-> RebootProgrammerCmd, body |-> RebootProgrammer_toBytes,
       responseClass |-> "None"],
      [id |-> ProgramBlockCmd, blockLen |-> MaxWriteBlockSize,
       responseClass |-> "FGeneric_Response"] }

\* transport.writeCommand( cmd, responseClass=... ) called by the user of the
\* transport
writeCommandCall ==
    /\ pc = "idle"
    /\ callsLeft > 0
    /\ op' = "writeCommand"
    /\ cmd' \in DirectCommands
    /\ pc' = "send"
    /\ callsLeft' = callsLeft - 1
    /\ UNCHANGED <<counter, rx, pd, ret, result, progress, tx, rxlog, ncmd,
                   wire, sent, rxraw, exchange>>
    /\ UNCHANGED ser
    /\ UNCHANGED fvars
    /\ UNCHANGED svars
    /\ UNCHANGED avars

writeCommandDone ==
    /\ pc = "reply"
    /\ op = "writeCommand"
    /\ ret.kind # "raise"
    /\ result' = Return(ret)
    /\ pc' = "done"
    /\ UNCHANGED <<counter, rx, op, pd, cmd, ret, progress, tx, rxlog, ncmd,
                   wire, sent, rxraw, exchange, callsLeft>>
    /\ UNCHANGED ser
    /\ UNCHANGED fvars
    /\ UNCHANGED svars
    /\ UNCHANGED avars

\* the caller takes the result; the transport stays as the call left it
callerReturns ==
    /\ pc = "done"
    /\ pc' = "idle"
    /\ op' = "none"
    /\ pd' = PdIdle
    /\ cmd' = NoCmd
    /\ ret' = None
    /\ result' = None
    /\ progress' = <<>>
    /\ tx' = <<>>
    /\ rxlog' = <<>>
    /\ ncmd' = 0
    /\ rxraw' = <<>>
    /\ UNCHANGED <<counter, rx, wire, sent, exchange, callsLeft>>
    /\ UNCHANGED ser
    /\ UNCHANGED fvars
    /\ UNCHANGED svars
    /\ UNCHANGED avars

(***************************************************************************)
(* FabricService: discovery of devices on the serial ports.                *)
(*                                                                         *)
(* A port name is a sequence of tokens ("/dev/ttyACM", "0") and a uri is   *)
(* the sequence proto, "://", port tokens; a glob pattern is a sequence of *)
(* tokens in which "*" stands for any run of tokens.  A FabricDeviceInfo   *)
(* object is a record whose field obj is the identity of the object: the   *)
(* class defines no __eq__, so == and `in` compare identities.             *)
(***************************************************************************)
TransportTypeUSBSerial == "usbserial"
TransportTypeIP == "ip"

IGNORE_PORTS == { <<"COM1">> }

PREFERRED_PROBE_PORTS ==
    [Linux  |-> << <<"/dev/ttyACM", "*">> >>,
     Darwin |-> << <<"/dev/cu.usbmodem", "*">> >>]

\* serial.tools.list_ports.comports(): the ports of the machine, in order
comports ==
    << <<"COM1">>, <<"/dev/ttyACM", "0">>, <<"/dev/ttyACM", "1">>,
       <<"/dev/ttyUSB", "0">> >>

\* platform.system()
Systems == {"Linux", "Windows"}

\* What is behind a port: a device that answers at once, a device that
\* answers only within the normal timeout, nothing that answers, something
\* that answers with a broken frame, a port that cannot be opened.
EndpointKinds == {"device", "slow", "silent", "noise", "closed"}

Ports == { comports[k] : k \in 1..Len(comports) }

ProbedPorts == Ports \ IGNORE_PORTS

\* uri = TransportTypeUSBSerial + '://' + port
uriOf(port) == <<TransportTypeUSBSerial, "://">> \o port

\* proto, port = uri.split('://')
protoOf(uri) == uri[1]

portOf(uri) == SubSeq(uri, 3, Len(uri))

\* fnmatch.fnmatch( name, pat )
RECURSIVE fnmatch(_, _)
fnmatch(name, pat) ==
    IF pat = <<>> THEN name = <<>>
    ELSE IF Head(pat) = "*"
         THEN \E k \in 0..Len(name) :
                 fnmatch(SubSeq(name, k + 1, Len(name)), Tail(pat))
         ELSE /\ name # <<>>
              /\ Head(name) = Head(pat)
              /\ fnmatch(Tail(name), Tail(pat))

\* the uris listDevices enumerates: every port that is not ignored
RECURSIVE deviceUrisOf_all(_)
deviceUrisOf_all(serialPorts) ==
    IF serialPorts = <<>> THEN <<>>
    ELSE <<uriOf(Head(serialPorts))>> \o deviceUrisOf_all(Tail(serialPorts))

RECURSIVE deviceUrisOf(_)
deviceUrisOf(serialPorts) ==
    IF serialPorts = <<>> THEN <<>>
    ELSE IF Head(serialPorts) \in IGNORE_PORTS
         THEN deviceUrisOf(Tail(serialPorts))
         ELSE <<uriOf(Head(serialPorts))>> \o deviceUrisOf(Tail(serialPorts))

\* the FabricDeviceInfo that FabricTransport.queryDevice builds
FabricDeviceInfo(response, uri, obj) ==
    [obj |-> obj,
     status |-> IF response.deviceState = 1 THEN StatusExistsAndValid ELSE Unkown,
     fpgaDeviceId |-> response.fpgaDeviceId,
     uri |-> uri,
     uid |-> uidOf(response.progDeviceId, 8)]

\* the bytes the endpoint yields to the read that follows a QueryDevice
\* frame with counter c
EndpointReply(kind, timeout, c) ==
    LET ok == Framed(<<QueryDeviceCmd, c>> \o OkBody("FQueryDevicePacket_Response"))
    IN CASE kind = "device" -> ok
         [] kind = "slow" -> IF timeout < SERIAL_NORMAL_TIMEOUT THEN <<>> ELSE ok
         [] kind = "silent" -> <<>>
         [] kind = "noise" -> [ok EXCEPT ![Len(ok)] = (ok[Len(ok)] + 1) % 256]

\* FabricTransport.createTransportForUri( uri ): None for a protocol without
\* transport; serial.Serial raises when the port cannot be opened
createTransportForUri(uri) ==
    IF protoOf(uri) # TransportTypeUSBSerial THEN Return(None)
    ELSE IF endpoints[portOf(uri)] = "closed"
         THEN Raise("SerialException", "could not open port")
         ELSE Return([uri |-> uri, port |-> portOf(uri),
                      counter |-> USBSerialTransport_init.counter,
                      ser |-> initTransport])

\* transport.queryDevice() on a transport fresh from init()
transport_queryDevice(transport, obj) ==
    LET c == _adduint8(transport.counter, 1)
        w == writeBlock(<<QueryDeviceCmd, c>> \o FQueryDevicePacket_toBytes)
        b == readBlock(EndpointReply(endpoints[transport.port],
                                     transport.ser.timeout, c))
        r == readCommand(b, "FQueryDevicePacket_Response")
    IN IF w.raised THEN Raise("Exception", w.exc)
       ELSE IF r.kind = "raise" THEN r
            ELSE Return(FabricDeviceInfo(r, transport.uri, obj))

\* the channel of a query that could open none
NoSerial == [timeout |-> 0, write_timeout |-> 0, isFash |-> "closed"]

\* FabricService.queryDevice( uri, fast ): the transport it creates, with the
\* timeout mode it sets
queryTransport(uri, fast) ==
    LET t == createTransportForUri(uri)
    IN IF t.kind = "raise" THEN t
       ELSE IF t.value = None THEN t
            ELSE IF fast
                 THEN Return([t.value EXCEPT !.ser = setFastTimeoutMode(@, TRUE)])
                 ELSE t

FabricService_queryDevice(uri, fast, obj) ==
    LET t == queryTransport(uri, fast)
    IN IF t.kind = "raise" THEN t
       ELSE IF t.value = None THEN Return(None)
            ELSE transport_queryDevice(t.value, obj)

\* deviceInfo in devices
contains(devices, deviceInfo) ==
    \E k \in 1..Len(devices) : devices[k].obj = deviceInfo.obj

\* FabricService.addDeviceCache( deviceInfo )
addDeviceCache_evict(cache, deviceInfo) ==
    [u \in {deviceInfo.uri} |-> deviceInfo]

addDeviceCache(cache, deviceInfo) ==
    IF deviceInfo = None \/ deviceInfo.uri = None THEN cache
    ELSE [u \in (DOMAIN cache) \cup {deviceInfo.uri} |->
             IF u = deviceInfo.uri THEN deviceInfo ELSE cache[u]]

(***************************************************************************)
(* FabricService.listDevices, one loop iteration per step, and             *)
(* queryDeviceOrGetCached.                                                 *)
(***************************************************************************)
\* returnOnMinCnt: None or a number
NoMinCnt == [given |-> FALSE, n |-> 0]

MinCnt(k) == [given |-> TRUE, n |-> k]

MinCounts == {NoMinCnt, MinCnt(1), MinCnt(2)}

\* No method of the program closes a channel: the serial.Serial of a
\* transport is closed when the interpreter finalizes the object, which it
\* does as soon as the last reference is gone ("refcount") or at some later
\* collection that the run of the service does not see ("deferred").
\* open: the channels open now; peak: the most that were open at one moment
\* of the running call.
NoChannels(gc) == [gc |-> gc, open |-> 0, peak |-> 0]

Max(a, b) == IF a > b THEN a ELSE b

\* serial.Serial( port=... ) in initTransport succeeds
opensChannel(uri) ==
    LET t == createTransportForUri(uri)
    IN t.kind = "return" /\ t.value # None

\* FabricService.queryDevice( uri ): its transport is a local, referenced
\* until the method returns or raises
queryChannel(ch, uri) ==
    IF ~opensChannel(uri) THEN ch
    ELSE [ch EXCEPT !.peak = Max(@, ch.open + 1),
                    !.open = IF ch.gc = "deferred" THEN @ + 1 ELSE @]

\* queryDeviceOrGetCached( uri ) on a miss: its own transport is referenced
\* while s.queryDevice( uri ) creates and uses a second one
cachedQueryChannels(ch, uri) ==
    IF ~opensChannel(uri) THEN ch
    ELSE [ch EXCEPT !.peak = Max(@, ch.open + 2),
                    !.open = IF ch.gc = "deferred" THEN @ + 2 ELSE @]

LdIdle ==
    [returnOnMinCnt |-> NoMinCnt, deviceUris |-> <<>>, devices |-> <<>>,
     stage |-> "none", idx |-> 0]

\* the state of the service with no call running and an empty cache
ServiceIdle ==
    /\ deviceCache = <<>>
    /\ endpoints = [p \in Ports |-> "silent"]
    /\ system = "Windows"
    /\ sop = "none"
    /\ ld = LdIdle
    /\ sresult = None
    /\ probes = <<>>
    /\ nextObj = 1
    /\ returned = <<>>
    /\ scallsLeft = 0
    /\ channels = NoChannels("refcount")

\* FabricService() on a machine with some endpoints behind its ports; a
\* device answers behind every ignored port
ServiceInit ==
    /\ deviceCache = <<>>
    /\ endpoints \in { e \in [Ports -> EndpointKinds] :
                        \A p \in Ports \ ProbedPorts : e[p] = "device" }
    /\ system \in Systems
    /\ sop = "none"
    /\ ld = LdIdle
    /\ sresult = None
    /\ probes = <<>>
    /\ nextObj = 1
    /\ returned = <<>>
    /\ scallsLeft = MaxServiceCalls
    /\ \E gc \in {"refcount", "deferred"} : channels = NoChannels(gc)

\* listDevices( returnOnMinCnt ) up to the first loop
listDevices ==
    /\ sop = "none"
    /\ scallsLeft > 0
    /\ \E m \in MinCounts :
         ld' = [returnOnMinCnt |-> m,
                deviceUris |-> deviceUrisOf(comports),
                devices |-> <<>>,
                stage |-> IF system \in DOMAIN PREFERRED_PROBE_PORTS
                          THEN "preferred" ELSE "fast",
                idx |-> 1]
    /\ sop' = "listDevices"
    /\ sresult' = None
    /\ probes' = <<>>
    /\ scallsLeft' = scallsLeft - 1
    /\ UNCHANGED <<deviceCache, endpoints, system, nextObj, returned>>
    /\ UNCHANGED tvars
    /\ UNCHANGED avars
    /\ UNCHANGED fvars
    /\ UNCHANGED channels

\* the uri matches one of the preferred globs of the platform
isValid(uri) ==
    \E i \in 1..Len(PREFERRED_PROBE_PORTS[system]) :
        fnmatch(uri, <<TransportTypeUSBSerial, "://">> \o PREFERRED_PROBE_PORTS[system][i])

\* returnOnMinCnt != None and len(devices) >= returnOnMinCnt
minCntReached_never(l) == FALSE

minCntReached(l) ==
    l.returnOnMinCnt.given /\ Len(l.devices) >= l.returnOnMinCnt.n

\* if not deviceInfo in devices: devices.append( deviceInfo )
collected(l, deviceInfo) ==
    [l EXCEPT !.devices = IF contains(@, deviceInfo) THEN @
                          ELSE Append(@, deviceInfo)]

\* the next uri of the loop, or the next loop
nextCandidate_slowFirst(l) ==
    IF l.idx < Len(l.deviceUris) THEN [l EXCEPT !.idx = @ + 1]
    ELSE [l EXCEPT !.idx = 1,
                   !.stage = CASE l.stage = "preferred" -> "slow"
                               [] l.stage = "slow" -> "fast"
                               [] l.stage = "fast" -> "return"]

nextCandidate_again(l) ==
    IF l.idx < Len(l.deviceUris) THEN [l EXCEPT !.idx = @ + 1]
    ELSE [l EXCEPT !.idx = 1,
                   !.stage = CASE l.stage = "preferred" -> "fast"
                               [] l.stage = "fast" -> "slow"
                               [] l.stage = "slow" -> "fast"]

nextCandidate(l) ==
    IF l.idx < Len(l.deviceUris) THEN [l EXCEPT !.idx = @ + 1]
    ELSE [l EXCEPT !.idx = 1,
                   !.stage = CASE l.stage = "preferred" -> "fast"
                               [] l.stage = "fast" -> "slow"
                               [] l.stage = "slow" -> "return"]

probeOf(l, uri, fast, q) ==
    [uri |-> uri, fast |-> fast, stage |-> l.stage,
     ser |-> LET t == queryTransport(uri, fast)
             IN IF t.kind = "return" /\ t.value # None THEN t.value.ser
                ELSE NoSerial,
     collected |-> Len(l.devices),
     outcome |-> IF q.kind = "raise" THEN "raise"
                 ELSE IF q.value = None THEN "none" ELSE "info"]

\* the body of "if deviceInfo:" in both passes
probeSucceeded(deviceInfo) ==
    LET l == collected(ld, deviceInfo)
    IN /\ deviceCache' = addDeviceCache(deviceCache, deviceInfo)
       /\ nextObj' = nextObj + 1
       /\ IF minCntReached(l)
          THEN /\ ld' = l
               /\ sresult' = Return(l.devices)
               /\ sop' = "done"
          ELSE /\ ld' = nextCandidate(l)
               /\ UNCHANGED <<sop, sresult>>

\* nothing collected from this uri: the loop goes on
probeSkipped ==
    /\ ld' = nextCandidate(ld)
    /\ UNCHANGED <<deviceCache, nextObj, sop, sresult>>

\* pass 1, "try fast preferred first": one iteration of the loop, which has
\* no try/except
listDevices_preferred ==
    /\ sop = "listDevices"
    /\ ld.stage = "preferred"
    /\ LET uri == ld.deviceUris[ld.idx]
           q == FabricService_queryDevice(uri, TRUE, nextObj)
       IN IF ~isValid(uri)
          THEN probeSkipped /\ UNCHANGED probes
          ELSE /\ probes' = Append(probes, probeOf(ld, uri, TRUE, q))
               /\ IF q.kind = "raise"
                  THEN /\ sresult' = q
                       /\ sop' = "done"
                       /\ UNCHANGED <<ld, deviceCache, nextObj>>
                  ELSE IF q.value = None THEN probeSkipped
                       ELSE probeSucceeded(q.value)
    /\ UNCHANGED <<endpoints, system, returned, scallsLeft>>
    /\ UNCHANGED tvars
    /\ UNCHANGED avars
    /\ UNCHANGED fvars
    /\ channels' = IF isValid(ld.deviceUris[ld.idx])
                   THEN queryChannel(channels, ld.deviceUris[ld.idx])
                   ELSE channels

\* pass 2, "query all / slow": one iteration of the inner loop, whose body
\* is in try/except: pass
listDevices_all ==
    /\ sop = "listDevices"
    /\ ld.stage \in {"fast", "slow"}
    /\ LET uri == ld.deviceUris[ld.idx]
           fastMode == (ld.stage = "fast")
           q == FabricService_queryDevice(uri, fastMode, nextObj)
       IN /\ probes' = Append(probes, probeOf(ld, uri, fastMode, q))
          /\ IF q.kind = "raise" THEN probeSkipped
             ELSE IF q.value = None THEN probeSkipped
                  ELSE probeSucceeded(q.value)
    /\ UNCHANGED <<endpoints, system, returned, scallsLeft>>
    /\ UNCHANGED tvars
    /\ UNCHANGED avars
    /\ UNCHANGED fvars
    /\ channels' = queryChannel(channels, ld.deviceUris[ld.idx])

\* "return devices" after the loops
listDevices_return ==
    /\ sop = "listDevices"
    /\ ld.stage = "return"
    /\ sresult' = Return(ld.devices)
    /\ sop' = "done"
    /\ UNCHANGED <<deviceCache, endpoints, system, ld, probes, nextObj, returned,
                   scallsLeft>>
    /\ UNCHANGED tvars
    /\ UNCHANGED avars
    /\ UNCHANGED fvars
    /\ UNCHANGED channels

\* the uris a caller asks queryDeviceOrGetCached for
QueriedUris == { uriOf(<<"/dev/ttyACM", "0">>), <<TransportTypeIP, "://", "10.0.0.2">> }

\* queryDeviceOrGetCached( uri, fastMode )
queryDeviceOrGetCached ==
    /\ sop = "none"
    /\ scallsLeft > 0
    /\ \E uri \in QueriedUris, fastMode \in BOOLEAN :
         IF uri \in DOMAIN deviceCache
         THEN /\ sresult' = Return(deviceCache[uri])
              /\ UNCHANGED <<deviceCache, probes, nextObj, channels>>
         ELSE LET t == createTransportForUri(uri)
                  q == FabricService_queryDevice(uri, fastMode, nextObj)
              IN IF t.kind = "raise"
                 THEN /\ sresult' = t
                      /\ UNCHANGED <<deviceCache, probes, nextObj, channels>>
                 ELSE IF t.value = None
                      THEN /\ sresult' = Return(int(0))
                           /\ UNCHANGED <<deviceCache, probes, nextObj, channels>>
                      ELSE /\ probes' = Append(probes, probeOf(ld, uri, fastMode, q))
                           /\ channels' = cachedQueryChannels(channels, uri)
                           /\ sresult' = q
                           /\ IF q.kind = "return" /\ q.value # None
                              THEN /\ deviceCache' = addDeviceCache(deviceCache, q.value)
                                   /\ nextObj' = nextObj + 1
                              ELSE UNCHANGED <<deviceCache, nextObj>>
    /\ sop' = "done"
    /\ scallsLeft' = scallsLeft - 1
    /\ UNCHANGED <<endpoints, system, ld, returned>>
    /\ UNCHANGED tvars
    /\ UNCHANGED avars
    /\ UNCHANGED fvars

\* the DeviceInfo as a value: status, fpgaDeviceId, uri, uid
valueOf(deviceInfo) ==
    [status |-> deviceInfo.status, fpgaDeviceId |-> deviceInfo.fpgaDeviceId,
     uri |-> deviceInfo.uri, uid |-> deviceInfo.uid]

\* what a listDevices call handed to its caller: the set of values of the
\* list, or the exception
handedBack(r) ==
    IF r.kind = "raise" THEN r
    ELSE [kind |-> "return",
          values |-> { valueOf(r.value[k]) : k \in 1..Len(r.value) }]

\* the caller takes the result; the service keeps its cache
serviceReturns ==
    /\ sop = "done"
    /\ sop' = "none"
    /\ returned' = IF ld.stage = "none" THEN returned
                   ELSE Append(returned, [returnOnMinCnt |-> ld.returnOnMinCnt,
                                          result |-> handedBack(sresult)])
    /\ ld' = LdIdle
    /\ sresult' = None
    /\ probes' = <<>>
    /\ UNCHANGED <<deviceCache, endpoints, system, nextObj, scallsLeft>>
    /\ UNCHANGED tvars
    /\ UNCHANGED avars
    /\ UNCHANGED fvars
    /\ channels' = [channels EXCEPT !.peak = channels.open]

(***************************************************************************)
(* Specification of one upload: programDevice is called once on a          *)
(* transport that has sent StartCounters commands before.                  *)
(***************************************************************************)
StartCounters == {0, 254}

\* no _adduint8 call is looked at on its own
AddIdle == uint8sum = [a |-> 0, b |-> 0, called |-> FALSE, res |-> 0]

Init ==
    /\ \E c \in StartCounters : TransportInit(c, 1)
    /\ FrameIdle
    /\ ServiceIdle
    /\ AddIdle

Next ==
    \/ setFastTimeoutModeCall
    \/ programDevice
    \/ writeCommand
    \/ awaitResponse
    \/ propagate
    \/ programBegun
    \/ programBlockDone
    \/ programCompleted

Spec == Init /\ [][Next]_vars

(***************************************************************************)
(* Specification of the frame codec on its own.                            *)
(***************************************************************************)
InitFrame ==
    /\ TransportInit(0, 0)
    /\ fdata \in FramePayloads
    /\ serial = <<>>
    /\ tamper = "none"
    /\ fstep = "new"
    /\ fresult = None
    /\ ServiceIdle
    /\ AddIdle

SpecFrame == InitFrame /\ [][NextFrame]_vars

(***************************************************************************)
(* Specification of a link in use: a caller issues MaxCommands single-     *)
(* command methods, one after the other, on a transport fresh from init(). *)
(***************************************************************************)
InitLink ==
    /\ TransportInit(0, MaxCommands)
    /\ FrameIdle
    /\ ServiceIdle
    /\ AddIdle

NextLink ==
    \/ queryDevice
    \/ clearFlash
    \/ rebootProgrammer
    \/ queryBitstreamFlash
    \/ writeCommand
    \/ awaitResponse
    \/ propagate
    \/ queryDeviceDone
    \/ clearFlashDone
    \/ rebootProgrammerDone
    \/ queryBitstreamFlashDone
    \/ callerReturns

SpecLink == InitLink /\ [][NextLink]_vars

(***************************************************************************)
(* Specification of writeCommand used directly: a caller hands             *)
(* MaxDirectCalls commands to writeCommand of a transport that has sent    *)
(* StartCounters commands before.                                          *)
(***************************************************************************)
InitCommand ==
    /\ \E c \in StartCounters : TransportInit(c, MaxDirectCalls)
    /\ FrameIdle
    /\ ServiceIdle
    /\ AddIdle

NextCommand ==
    \/ writeCommandCall
    \/ writeCommand
    \/ awaitResponse
    \/ propagate
    \/ writeCommandDone
    \/ callerReturns

SpecCommand == InitCommand /\ [][NextCommand]_vars

(***************************************************************************)
(* Specification of the discovery service: a caller makes MaxServiceCalls  *)
(* calls of listDevices and queryDeviceOrGetCached on one FabricService,   *)
(* on a machine whose endpoints do not change.                             *)
(***************************************************************************)
InitService ==
    /\ TransportInit(0, 0)
    /\ FrameIdle
    /\ ServiceInit
    /\ AddIdle

NextService ==
    \/ listDevices
    \/ listDevices_preferred
    \/ listDevices_all
    \/ listDevices_return
    \/ queryDeviceOrGetCached
    \/ serviceReturns

SpecService == InitService /\ [][NextService]_vars

\* the body of a loop of listDevices runs when the probe before it has ended:
\* a running listDevices call takes its next step
listDevices_step ==
    \/ listDevices_preferred
    \/ listDevices_all
    \/ listDevices_return

\* WF_vars(listDevices_step), with ENABLED <<listDevices_step>>_vars written
\* out: a step of the loops is possible exactly while the call runs
listDevices_fair ==
    []<>(sop # "listDevices") \/ []<><<listDevices_step>>_vars

SpecServiceFair == SpecService /\ listDevices_fair

(***************************************************************************)
(* Specification of the byte addition on its own: _adduint8 is called once *)
(* with any two bytes.                                                     *)
(***************************************************************************)
InitAdd ==
    /\ TransportInit(0, 0)
    /\ FrameIdle
    /\ ServiceIdle
    /\ \E a \in Byte, b \in Byte :
          uint8sum = [a |-> a, b |-> b, called |-> FALSE, res |-> 0]

\* res = _adduint8( a, b )
adduint8Call ==
    /\ ~uint8sum.called
    /\ uint8sum' = [uint8sum EXCEPT !.called = TRUE,
                                     !.res = _adduint8(uint8sum.a, uint8sum.b)]
    /\ UNCHANGED tvars
    /\ UNCHANGED fvars
    /\ UNCHANGED svars

NextAdd == adduint8Call

SpecAdd == InitAdd /\ [][NextAdd]_vars

(***************************************************************************)
(* Properties of the frame codec (SpecFrame).                              *)
(***************************************************************************)
\* C1: frame round trip.  For every payload p with 0 <= len(p) <= 0xFFFF-16,
\* the upper bound included, writeBlock emits a frame and readBlock, reading
\* exactly the bytes emitted, returns exactly p.
C1_FrameRoundTrip ==
    (fstep # "off" /\ Len(fdata) <= 65535 - 16) =>
        /\ fstep # "rejected"
        /\ (fstep = "read" /\ tamper = "none") =>
               (fresult.kind = "data" /\ fresult.data = fdata)

\* C2: when exactly one payload byte of a frame written by writeBlock is
\* changed to another value in transit (magic, length and checksum bytes
\* untouched), readBlock ends with the checksum error and returns no payload.
C2_TamperedPayloadFailsCrc ==
    (fstep = "read" /\ tamper = "payload") => fresult.kind = "CrcFail"

C2_Witness ==
    /\ fstep = "read"
    /\ tamper = "payload"
    /\ fdata = <<255, 0, 1>>
    /\ serial[4] = 0

(***************************************************************************)
(* Properties of one upload (Spec).  A frame on the channel is             *)
(*   magic, length (2), commandId, counter, command payload, checksum      *)
(* and the payload of ProgramBlock is blockId (2), compressedSize (2),     *)
(* rawSize (2), checksum (1) and the compressed block.                     *)
(***************************************************************************)
cmdOf(frame) == frame[4]

blockIdOf(frame) == decodeInt16(frame, 5)

rawSizeOf(frame) == decodeInt16(frame, 9)

rawBlockOf(frame) == decompressData(SubSeq(frame, 13, Len(frame) - 1))

acknowledged(k) ==
    /\ k <= Len(rxlog)
    /\ rxlog[k].kind = "response"
    /\ rxlog[k].errorCode = 0

\* number of blocks of a bitstream of S bytes: the least n with n * 4064 >= S
blocksOf(S) == CHOOSE n \in 0..(S + 1) : n * 4064 >= S /\ (n - 1) * 4064 < S

\* C3: the frames of a programDevice run are, in this order, one
\* ProgramDevice, the ProgramBlock commands with blockId 0, 1, 2, ... and
\* then one ProgramComplete, which is the last frame and is sent only after
\* every block was sent; every frame is sent only after the frame before it
\* was acknowledged with errorCode 0; success is reported only after
\* ProgramComplete was acknowledged with errorCode 0.
C3_UploadOrder ==
    op = "programDevice" =>
        /\ \A k \in 1..Len(tx) :
              \/ k = 1 /\ cmdOf(tx[k]) = ProgramDeviceCmd
              \/ k > 1 /\ cmdOf(tx[k]) = ProgramBlockCmd
                       /\ blockIdOf(tx[k]) = k - 2
                       /\ k - 2 < blocksOf(pd.sz)
              \/ k > 1 /\ cmdOf(tx[k]) = ProgramCompleteCmd
                       /\ k = Len(tx)
                       /\ k - 2 = blocksOf(pd.sz)
        /\ \A k \in 1..(Len(tx) - 1) : acknowledged(k)
        /\ result = Return(TRUE) =>
              /\ Len(tx) >= 2
              /\ cmdOf(tx[Len(tx)]) = ProgramCompleteCmd
              /\ acknowledged(Len(tx))

C3_Witness ==
    /\ op = "programDevice"
    /\ result = Return(TRUE)
    /\ Len(tx) = 5
    /\ blockIdOf(tx[4]) = 2

RECURSIVE rawBlocks(_, _)
rawBlocks(frames, n) ==
    IF n = 0 THEN <<>> ELSE rawBlocks(frames, n - 1) \o rawBlockOf(frames[n + 1])

\* C4: block chunking.  A successful programDevice of a bitstream of S >= 0
\* bytes has sent exactly ceil(S/4064) ProgramBlock commands, every block
\* but the last of raw size 4064, the last of raw size 1..4064, with block
\* ids 0, 1, 2, ... without gaps, and the raw blocks concatenated in id
\* order are the bitstream.
C4_BlockChunking ==
    (op = "programDevice" /\ result = Return(TRUE)) =>
        LET n == Cardinality({ k \in 1..Len(tx) : cmdOf(tx[k]) = ProgramBlockCmd })
        IN /\ n = blocksOf(Len(pd.bitstreamData))
           /\ \A j \in 1..n :
                 /\ cmdOf(tx[j + 1]) = ProgramBlockCmd
                 /\ blockIdOf(tx[j + 1]) = j - 1
                 /\ rawSizeOf(tx[j + 1]) = Len(rawBlockOf(tx[j + 1]))
                 /\ j < n => rawSizeOf(tx[j + 1]) = 4064
                 /\ j = n => rawSizeOf(tx[j + 1]) \in 1..4064
           /\ rawBlocks(tx, n) = pd.bitstreamData

C4_Witness ==
    /\ op = "programDevice"
    /\ result = Return(TRUE)
    /\ Len(pd.bitstreamData) = 2 * 4064 + 1
    /\ rawSizeOf(tx[4]) = 1

\* C5: when the response to ProgramDevice carries a nonzero errorCode c, no
\* ProgramBlock and no ProgramComplete is sent, the call does not report
\* success and the error it raises carries c.
C5_BeginRefused ==
    (op = "programDevice" /\ Len(rxlog) >= 1 /\ rxlog[1].kind = "response"
        /\ rxlog[1].errorCode # 0) =>
        /\ Len(tx) = 1
        /\ ncmd = 1
        /\ pc \in {"reply", "done"}
        /\ result # Return(TRUE)
        /\ pc = "done" =>
              (result.kind = "raise" /\ "code" \in DOMAIN result
                  /\ result.code = rxlog[1].errorCode)

C5_Witness ==
    /\ op = "programDevice"
    /\ pc = "done"
    /\ Len(rxlog) = 1
    /\ rxlog[1].errorCode = 5
    /\ result = DeviceFailed(5)
    /\ pd.sz > 4064

\* C6: when the response to the ProgramBlock with blockId k carries a nonzero
\* errorCode, no frame is sent after it (no later block, no ProgramComplete,
\* block k is not sent again) and the call raises instead of reporting
\* success.
C6_BlockRefused ==
    op = "programDevice" =>
        \A k \in 2..Len(rxlog) :
            (cmdOf(tx[k]) = ProgramBlockCmd /\ rxlog[k].kind = "response"
                /\ rxlog[k].errorCode # 0) =>
                /\ Len(tx) = k
                /\ ncmd = k
                /\ Cardinality({ j \in 1..Len(tx) :
                       cmdOf(tx[j]) = ProgramBlockCmd
                           /\ blockIdOf(tx[j]) = blockIdOf(tx[k]) }) = 1
                /\ pc \in {"reply", "done"}
                /\ result # Return(TRUE)
                /\ pc = "done" => result.kind = "raise"

C6_Witness ==
    /\ op = "programDevice"
    /\ pc = "done"
    /\ Len(rxlog) = 3
    /\ cmdOf(tx[3]) = ProgramBlockCmd
    /\ blockIdOf(tx[3]) = 1
    /\ rxlog[3].errorCode = 258
    /\ result.kind = "raise"
    /\ pd.blockCnt = 3

\* C7: when a command of an upload gets no response within the timeout, or a
\* response that fails framing (or one that cannot be decoded), the upload
\* fails: no further frame is sent and success is never reported.
C7_NoResponseAborts ==
    op = "programDevice" =>
        \A k \in 1..Len(rxlog) :
            rxlog[k].kind = "raise" =>
                /\ Len(tx) = k
                /\ ncmd = k
                /\ pc \in {"reply", "done"}
                /\ result # Return(TRUE)
                /\ pc = "done" => result.kind = "raise"

C7_Witness ==
    /\ op = "programDevice"
    /\ pc = "done"
    /\ Len(rxlog) = 2
    /\ rxlog[2].frame = "timeout"
    /\ result = Raise("Exception", "No response")

\* the command of a frame without its counter byte
commandOf(frame) == <<frame[4]>> \o SubSeq(frame, 6, Len(frame) - 1)

\* C9: every writeCommand call writes exactly one frame and reads at most one
\* frame; after a timeout, a checksum error or a device error nothing is sent
\* again: the failed command is the last frame of the call and no command is
\* on the channel twice.
C9_OneFramePerCall ==
    /\ Len(tx) = ncmd
    /\ Len(rxlog) <= ncmd
    /\ pc \in {"reply", "done"} => Len(rxlog) = ncmd
    /\ \A k \in 1..Len(rxlog) :
          (rxlog[k].kind = "raise" \/ rxlog[k].errorCode # 0) => Len(tx) = k
    /\ \A j, k \in 1..Len(tx) : j < k => commandOf(tx[j]) # commandOf(tx[k])

C9_Witness ==
    /\ op = "programDevice"
    /\ pc = "done"
    /\ ncmd = 3
    /\ Len(tx) = 3
    /\ rxlog[3].frame = "CrcFail"
    /\ result = Raise("Exception", "Crc fail")

(***************************************************************************)
(* Properties of a link in use (SpecLink).                                 *)
(***************************************************************************)
\* C8: counter wraparound.  On a fresh transport the k-th writeCommand call
\* puts the counter byte k mod 256 on the wire: every call advances the
\* counter by one modulo 256 (255 is followed by 0), the first 256 calls put
\* every value 0..255 on the wire exactly once, and after the 256th call the
\* counter is 0 again.
C8_CounterWraparound ==
    /\ counter = Len(wire) % 256
    /\ \A k \in 1..Len(wire) : wire[k] = k % 256
    /\ Len(wire) = 256 =>
          /\ counter = 0
          /\ { wire[k] : k \in 1..256 } = 0..255
          /\ \A j, k \in 1..256 : j # k => wire[j] # wire[k]

C8_Witness ==
    /\ Len(wire) = 257
    /\ wire[255] = 255
    /\ wire[256] = 0
    /\ wire[257] = 1
    /\ counter = 1

resolved == {"answered", "timeout", "error"}

\* C10 as claimed: between two consecutive command frames written to the
\* channel, the response to the first was read completely with a valid
\* checksum or ended in a timeout or an error.
C10_ResponseBeforeNextCommand ==
    [][ (Len(wire') > Len(wire) /\ Len(wire) > 0) => exchange \in resolved ]_vars

\* C10 as amended: no command frame is written while the response to an
\* earlier command is still awaited, and between two consecutive command
\* frames the response to the first was read completely with a valid
\* checksum or ended in a timeout or an error, unless the first command is
\* RebootProgrammer, which is sent without a response being expected or read.
C10_OneExchangeOutstanding ==
    [][ (Len(wire') > Len(wire) /\ Len(wire) > 0) =>
            \/ exchange \in resolved
            \/ /\ exchange = "noreply"
               /\ sent[Len(sent)] = RebootProgrammerCmd ]_vars

C10_Witness ==
    /\ Len(wire) = 3
    /\ sent = <<RebootProgrammerCmd, QueryDeviceCmd>>
    /\ exchange = "awaiting"
    /\ pc = "await"

(***************************************************************************)
(* Properties of the device query (SpecLink).  The frame of a              *)
(* QueryDevice response is magic, length (2), commandId, counter,          *)
(* deviceState, fpgaDeviceId (4), id bytes (8), checksum.                  *)
(***************************************************************************)
\* C11: when the channel never yields a byte, queryDevice ends after the
\* read timeout and returns "no device" (None): it does not fail with an
\* error.
C11_SilentChannelNoDevice ==
    (op = "queryDevice" /\ pc = "done" /\ ncmd = 1 /\ Len(rxlog) = 1
        /\ rxraw = <<>>) => result = Return(None)

\* two lowercase hex digits per byte
RECURSIVE hex2(_)
hex2(bytes) ==
    IF bytes = <<>> THEN <<>>
    ELSE << HexDigit[(Head(bytes) \div 16) + 1], HexDigit[(Head(bytes) % 16) + 1] >>
            \o hex2(Tail(bytes))

\* C12: the uid of a DeviceInfo is the 8 id bytes of the query response,
\* each rendered as exactly two lowercase hex digits, concatenated in order:
\* it has 16 characters, and the id bytes 1,2,3,4,5,6,7,8 give
\* "0102030405060708".
C12_UidTwoHexDigitsPerByte ==
    (op = "queryDevice" /\ pc = "done" /\ result.kind = "return") =>
        /\ Len(result.value.uid) = 16
        /\ result.value.uid = hex2(SubSeq(rxraw, 11, 18))
        /\ SubSeq(rxraw, 11, 18) = <<1, 2, 3, 4, 5, 6, 7, 8>> =>
              result.value.uid = <<"0", "1", "0", "2", "0", "3", "0", "4",
                                   "0", "5", "0", "6", "0", "7", "0", "8">>

\* C13: a successful device query yields a DeviceInfo whose status is Valid
\* exactly when the deviceState byte of the response is 1 and Unknown for
\* every other value, whose fpgaDeviceId is the little-endian u32 at offset 1
\* of the response, and whose uri is the URI of the transport queried.
C13_QueryResultFields ==
    (op = "queryDevice" /\ pc = "done" /\ result.kind = "return") =>
        /\ result.value.status = (IF rxraw[6] = 1 THEN "ok" ELSE "unkown")
        /\ result.value.fpgaDeviceId =
              rxraw[7] + 256 * rxraw[8] + 65536 * rxraw[9] + 16777216 * rxraw[10]
        /\ result.value.uri = "usbserial://COM6"

C13_Witness ==
    /\ op = "queryDevice"
    /\ pc = "done"
    /\ result.kind = "return"
    /\ rxraw[6] = 255
    /\ result.value.status = "unkown"
    /\ result.value.fpgaDeviceId = 16909060

(***************************************************************************)
(* The bytes of a frame (SpecFrame).                                       *)
(***************************************************************************)
\* C20: for a payload p that writeBlock accepts, it emits exactly these
\* bytes in this order and nothing else: the magic byte 0x1b, the low byte
\* and then the high byte of len(p)+1, the bytes of p, and one checksum byte
\* equal to the sum of the bytes of p modulo 256.
C20_FrameLayout ==
    (fstep \in {"written", "read"} /\ tamper = "none") =>
        LET n == Len(fdata)
        IN /\ Len(serial) = 1 + 2 + n + 1
           /\ serial[1] = 27
           /\ serial[2] = (n + 1) % 256
           /\ serial[3] = (n + 1) \div 256
           /\ \A i \in 1..n : serial[3 + i] = fdata[i]
           /\ serial[n + 4] = ByteSum(fdata) % 256

C20_Witness ==
    /\ fstep = "written"
    /\ tamper = "none"
    /\ fdata = <<255, 1, 1>>
    /\ serial = <<27, 4, 0, 255, 1, 1, 1>>

(***************************************************************************)
(* Device errors.                                                          *)
(***************************************************************************)
\* C19: whenever the decoded response to ProgramDevice, ProgramBlock,
\* ProgramComplete or ClearBitstreamFlash carries a nonzero errorCode, the
\* operation fails and the failure handed to the caller carries that same
\* errorCode.
C19_ErrorCodeSurfaced ==
    (pc = "done" /\ op \in {"programDevice", "clearFlash"} /\ Len(rxlog) >= 1
        /\ rxlog[Len(rxlog)].kind = "response"
        /\ rxlog[Len(rxlog)].errorCode # 0) =>
        /\ result.kind = "raise"
        /\ "code" \in DOMAIN result
        /\ result.code = rxlog[Len(rxlog)].errorCode

(***************************************************************************)
(* Properties of the discovery service (SpecService).                      *)
(***************************************************************************)
listDevicesDone == sop = "done" /\ ld.stage # "none"

\* C14: the list returned by listDevices is deduplicated by value: it never
\* holds two entries that agree on status, fpgaDeviceId, uri and uid.
C14_ListDeduplicatedByValue ==
    (listDevicesDone /\ sresult.kind = "return") =>
        \A j, k \in 1..Len(sresult.value) :
            j # k => valueOf(sresult.value[j]) # valueOf(sresult.value[k])

\* C15: a failed probe of one candidate never aborts listDevices: in pass 1
\* as in pass 2 the candidates after it are still probed and listDevices
\* returns a list instead of failing.
C15_FailedProbeNeverAborts ==
    \A k \in 1..Len(probes) :
        (ld.stage # "none" /\ probes[k].outcome = "raise") =>
            /\ sresult.kind # "raise"
            /\ listDevicesDone => sresult.kind = "return"

\* C16: with minCount >= 1, listDevices stops as soon as the collected
\* result holds minCount devices: no candidate is probed after that point,
\* in either pass, and the returned list has no more than minCount entries.
C16_StopsAtMinCount ==
    (ld.stage # "none" /\ ld.returnOnMinCnt.given /\ ld.returnOnMinCnt.n >= 1) =>
        /\ \A k \in 1..Len(probes) : probes[k].collected < ld.returnOnMinCnt.n
        /\ Len(ld.devices) <= ld.returnOnMinCnt.n
        /\ Len(ld.devices) >= ld.returnOnMinCnt.n =>
              (sop = "done" /\ sresult = Return(ld.devices))
        /\ sresult.kind = "return" => Len(sresult.value) <= ld.returnOnMinCnt.n

C16_Witness ==
    /\ listDevicesDone
    /\ system = "Windows"
    /\ ld.returnOnMinCnt = MinCnt(2)
    /\ Len(sresult.value) = 2
    /\ Len(probes) = 5
    /\ probes[5].stage = "slow"
    /\ ld.idx < Len(ld.deviceUris)

\* C17: discovery idempotence.  Two listDevices calls with the same
\* arguments against an unchanged set of endpoints hand back the same set of
\* DeviceInfo values, and after each call every returned DeviceInfo is in
\* the cache under its uri.
C17_DiscoveryIdempotent ==
    listDevicesDone =>
        /\ \A k \in 1..Len(returned) :
              returned[k].returnOnMinCnt = ld.returnOnMinCnt =>
                  returned[k].result = handedBack(sresult)
        /\ sresult.kind = "return" =>
              \A k \in 1..Len(sresult.value) :
                 /\ sresult.value[k].uri \in DOMAIN deviceCache
                 /\ valueOf(deviceCache[sresult.value[k].uri]) = valueOf(sresult.value[k])

C17_Witness ==
    /\ listDevicesDone
    /\ Len(returned) = 1
    /\ returned[1].returnOnMinCnt = ld.returnOnMinCnt
    /\ sresult.kind = "return"
    /\ Cardinality({ sresult.value[k].uri : k \in 1..Len(sresult.value) }) = 2
    /\ returned[1].result = handedBack(sresult)

\* C18: the device cache is keyed by uri and never evicted: no step of the
\* service removes a key, the DeviceInfo under key u has uri = u, and the
\* value under u changes only by a successful query of u in that step.
C18_CacheKeyedNeverEvicted ==
    [][ /\ DOMAIN deviceCache \subseteq DOMAIN deviceCache'
        /\ \A u \in DOMAIN deviceCache' : deviceCache'[u].uri = u
        /\ \A u \in DOMAIN deviceCache :
              deviceCache'[u] # deviceCache[u] =>
                  /\ Len(probes') = Len(probes) + 1
                  /\ probes'[Len(probes')].uri = u
                  /\ probes'[Len(probes')].outcome = "info" ]_vars

C18_Witness ==
    /\ Cardinality(DOMAIN deviceCache) = 2
    /\ \E u \in DOMAIN deviceCache : deviceCache[u].obj >= 5
    /\ Len(returned) = 1
    /\ sop = "listDevices"

(***************************************************************************)
(* Commands without fields                                                 *)
(***************************************************************************)
payloadOf(frame) == SubSeq(frame, 4, Len(frame) - 1)

FieldlessCmds ==
    {QueryDeviceCmd, ProgramCompleteCmd, ClearBitstreamFlashCmd,
     RebootProgrammerCmd, QueryBitstreamFlashCmd}

\* C21: QueryDevice, ProgramComplete, ClearBitstreamFlash, RebootProgrammer
\* and QueryBitstreamFlash have no payload fields: the frame payload written
\* for each of them is exactly the two bytes [commandId, counter].
C21_FieldlessPayload ==
    \A k \in 1..Len(tx) :
        cmdOf(tx[k]) \in FieldlessCmds =>
            payloadOf(tx[k]) = <<cmdOf(tx[k]), tx[k][5]>>

(***************************************************************************)
(* Block compression                                                       *)
(***************************************************************************)
\* the compressed bytes a ProgramBlock frame carries
carriedOf(frame) == SubSeq(frame, 13, Len(frame) - 1)

\* the raw bytes of the block with id n of the bitstream being uploaded
blockOf(n) == PySlice(pd.bitstreamData, n * 4064, (n + 1) * 4064)

\* C22: compression round trip.  For every raw block b of at most 4064
\* bytes that an upload compresses, compressData(b) is a two-byte big-endian
\* header holding len(b) followed by the compressed stream of b, and
\* decompressData(compressData(b)) = b, whatever the header bytes are.
C22_CompressionRoundTrip ==
    op = "programDevice" =>
        \A k \in 2..Len(tx) :
            cmdOf(tx[k]) = ProgramBlockCmd =>
                LET b == blockOf(k - 2)
                    c == carriedOf(tx[k])
                IN /\ Len(b) <= 4064
                   /\ c[1] \in Byte /\ c[2] \in Byte
                   /\ c[1] * 256 + c[2] = Len(b)
                   /\ SubSeq(c, 3, Len(c)) = zlib_compress(b)
                   /\ decompressData(c) = b
                   /\ \A h1, h2 \in {0, 255} :
                         decompressData(<<h1, h2>> \o SubSeq(c, 3, Len(c))) = b

C22_Witness ==
    /\ op = "programDevice"
    /\ Len(tx) = 3
    /\ cmdOf(tx[2]) = ProgramBlockCmd
    /\ carriedOf(tx[2])[1] = 15
    /\ carriedOf(tx[2])[2] = 224
    /\ cmdOf(tx[3]) = ProgramBlockCmd
    /\ Len(blockOf(1)) = 1
    /\ decompressData(carriedOf(tx[3])) = blockOf(1)

(***************************************************************************)
(* The steps of one writeCommand call                                      *)
(***************************************************************************)
\* C23: within every writeCommand call the steps happen in this order: the
\* input and output are flushed, the counter is advanced, one frame with the
\* payload [commandId, counter] + command payload is written, and then a
\* frame is read if and only if a response is expected.  The frame carries
\* the advanced counter, the read sees only bytes that arrived after the
\* write, and a call that expects no response returns None without reading.
C23_WriteCommandOrder ==
    [][ /\ Len(tx') > Len(tx) =>
              /\ pc = "send"
              /\ rx' = <<>>
              /\ counter' = (counter + 1) % 256
              /\ tx' = Append(tx, tx'[Len(tx')])
              /\ payloadOf(tx'[Len(tx')]) = <<cmd.id, counter'>> \o cmd.body
              /\ rxlog' = rxlog
              /\ ((pc' = "await") <=> (cmd.responseClass # "None"))
              /\ cmd.responseClass = "None" => (pc' = "reply" /\ ret' = None)
        /\ Len(rxlog') > Len(rxlog) =>
              /\ pc = "await"
              /\ cmd.responseClass # "None"
              /\ rxlog' = Append(rxlog, rxlog'[Len(rxlog')])
              /\ Len(rxlog') = Len(tx)
              /\ tx' = tx
              /\ counter' = counter
              /\ counter = tx[Len(tx)][5]
              /\ rxraw' \in DeviceReplies(cmd.id, counter, cmd.responseClass)
        /\ (pc = "await" /\ pc' # "await") => Len(rxlog') > Len(rxlog)
        /\ (pc = "reply" /\ cmd.responseClass = "None") => Len(rxlog) < Len(tx)
      ]_vars

C23_Witness ==
    /\ op = "rebootProgrammer"
    /\ pc = "reply"
    /\ ret = None
    /\ rx = <<>>
    /\ Len(tx) = 1
    /\ rxlog = <<>>
    /\ counter = 3
    /\ payloadOf(tx[1]) = <<RebootProgrammerCmd, 3>>
    /\ sent = <<QueryDeviceCmd, RebootProgrammerCmd>>

(***************************************************************************)
(* Short reads and a wrong first byte                                      *)
(***************************************************************************)
\* C24: when the channel yields fewer bytes than requested while readBlock
\* reads the magic byte, the two length bytes or any of the body bytes,
\* readBlock reports a timeout with no payload, never a checksum or framing
\* error and never a partial payload, whatever it had consumed before.
C24_ShortReadIsTimeout ==
    (fstep = "read" /\ tamper = "truncated") =>
        /\ fresult.kind = "timeout"
        /\ fresult.kind \notin {"CrcFail", "AssertionError", "IndexError", "data"}
        /\ fresult.data = <<>>
        /\ fresult.used = Len(serial)

C24_Witness ==
    /\ fstep = "read"
    /\ tamper = "truncated"
    /\ fdata = <<1, 255, 0>>
    /\ serial = <<HeaderMagic, 4, 0, 1, 255>>
    /\ fresult.kind = "timeout"

\* C25: when the first byte readBlock receives is not 0x1b the read ends in
\* a fatal framing error: no payload is returned, the outcome is not a
\* timeout, and readBlock consumes only that byte, it does not skip bytes to
\* find a frame behind it.
C25_WrongMagicIsFatal ==
    (fstep = "read" /\ tamper \in {"magic", "stray"}) =>
        /\ serial[1] # 27
        /\ fresult.kind = "AssertionError"
        /\ fresult.kind # "timeout"
        /\ fresult.data = <<>>
        /\ fresult.used = 1

C25_Witness ==
    /\ fstep = "read"
    /\ tamper = "stray"
    /\ fdata = <<1, 255>>
    /\ serial = <<0, HeaderMagic, 3, 0, 1, 255, 0>>
    /\ readBlock(Tail(serial)).kind = "data"
    /\ fresult.kind = "AssertionError"

(***************************************************************************)
(* The order of the probes of listDevices                                  *)
(***************************************************************************)
\* a probe of pass 1 or pass 2: the port, the timeout tier and the pass
probe(port, fast, pass) == [uri |-> uriOf(port), fast |-> fast, pass |-> pass]

passOf(p) == IF p.stage = "preferred" THEN 1 ELSE 2

\* the probes of a whole listDevices call on the ports of the machine, in
\* the order the specification gives
probeOrder ==
    (IF system \in {"Linux", "Darwin"}
     THEN << probe(<<"/dev/ttyACM", "0">>, TRUE, 1),
             probe(<<"/dev/ttyACM", "1">>, TRUE, 1) >>
     ELSE <<>>)
    \o << probe(<<"/dev/ttyACM", "0">>, TRUE, 2),
          probe(<<"/dev/ttyACM", "1">>, TRUE, 2),
          probe(<<"/dev/ttyUSB", "0">>, TRUE, 2),
          probe(<<"/dev/ttyACM", "0">>, FALSE, 2),
          probe(<<"/dev/ttyACM", "1">>, FALSE, 2),
          probe(<<"/dev/ttyUSB", "0">>, FALSE, 2) >>

\* C26: listDevices probes in this order: pass 1 probes, with the fast
\* timeout and in enumeration order, only the candidates that match a
\* preferred glob of the platform; pass 2 then probes every candidate with
\* the fast timeout in enumeration order and, only after all of those, every
\* candidate with the normal timeout in enumeration order, the candidates of
\* pass 1 included.  A call that ends early has made a prefix of these
\* probes, a call that runs through both passes has made all of them.
C26_ProbeOrder ==
    (sop \in {"listDevices", "done"} /\ ld.stage # "none") =>
        /\ Len(probes) <= Len(probeOrder)
        /\ \A k \in 1..Len(probes) :
              /\ probes[k].uri = probeOrder[k].uri
              /\ probes[k].fast = probeOrder[k].fast
              /\ passOf(probes[k]) = probeOrder[k].pass
        /\ ld.stage = "return" => Len(probes) = Len(probeOrder)

C26_Witness ==
    /\ listDevicesDone
    /\ system = "Linux"
    /\ ld.stage = "return"
    /\ Len(probes) = 8
    /\ probes[2].outcome = "info"
    /\ probes[4].uri = probes[2].uri
    /\ probes[5].uri = uriOf(<<"/dev/ttyUSB", "0">>)
    /\ probes[5].fast
    /\ probes[8].outcome = "info"
    /\ ~probes[8].fast

(***************************************************************************)
(* The ignored ports                                                       *)
(***************************************************************************)
\* the uris of the enumerated ports that are not on the deny-list
AllowedUris ==
    { <<"usbserial", "://">> \o comports[k] :
        k \in { j \in 1..Len(comports) : comports[j] # <<"COM1">> } }

\* C27: a port on the deny-list (COM1) is never made a candidate:
\* listDevices never probes it, never collects or returns a DeviceInfo for
\* it and never caches one for it; every uri it probes is 'usbserial://'
\* followed by an enumerated port that is not denied.
C27_DeniedPortNeverCandidate ==
    [][ (sop' \in {"listDevices", "done"} /\ ld'.stage # "none") =>
            /\ \A k \in 1..Len(ld'.deviceUris) : ld'.deviceUris[k] \in AllowedUris
            /\ \A k \in 1..Len(probes') :
                  /\ probes'[k].uri \in AllowedUris
                  /\ probes'[k].uri # <<"usbserial", "://", "COM1">>
            /\ \A k \in 1..Len(ld'.devices) : ld'.devices[k].uri \in AllowedUris
            /\ sresult'.kind = "return" =>
                  \A k \in 1..Len(sresult'.value) :
                      sresult'.value[k].uri \in AllowedUris
            /\ (DOMAIN deviceCache' \ DOMAIN deviceCache) \subseteq AllowedUris
            /\ \A u \in DOMAIN deviceCache \cap DOMAIN deviceCache' :
                  deviceCache'[u] # deviceCache[u] => u \in AllowedUris ]_vars

C27_Witness ==
    /\ listDevicesDone
    /\ endpoints[<<"COM1">>] = "device"
    /\ ld.stage = "return"
    /\ Len(probes) = 6
    /\ sresult = Return(<<>>)
    /\ deviceCache = <<>>

(***************************************************************************)
(* The fields of the upload commands                                       *)
(***************************************************************************)
\* the fields of a ProgramDevice frame
saveToFlashOf(frame) == frame[6]

totalSizeOf(frame) == getInt32(frame, 6)

blockCountOf(frame) == getInt32(frame, 10)

bitstreamCrcOf(frame) == decodeInt16(frame, 14)

\* C28: the ProgramDevice command that opens an upload of S bytes carries
\* totalSize = S, blockCount = ceil(S / 4064), bitstreamCrc = 0 and
\* saveToFlash = 1 if saving was requested, else 0; in a successful upload
\* the announced blockCount is the number of ProgramBlock commands sent.
C28_ProgramDeviceFields ==
    (op = "programDevice" /\ Len(tx) >= 1) =>
        LET S == Len(pd.bitstreamData)
        IN /\ cmdOf(tx[1]) = ProgramDeviceCmd
           /\ Len(payloadOf(tx[1])) = 2 + 1 + 4 + 4 + 2
           /\ totalSizeOf(tx[1]) = S
           /\ blockCountOf(tx[1]) = blocksOf(S)
           /\ bitstreamCrcOf(tx[1]) = 0
           /\ saveToFlashOf(tx[1]) = (IF pd.saveToFlash THEN 1 ELSE 0)
           /\ result = Return(TRUE) =>
                 blockCountOf(tx[1]) =
                     Cardinality({ k \in 1..Len(tx) : cmdOf(tx[k]) = ProgramBlockCmd })

C28_Witness ==
    /\ op = "programDevice"
    /\ result = Return(TRUE)
    /\ pd.saveToFlash
    /\ saveToFlashOf(tx[1]) = 1
    /\ totalSizeOf(tx[1]) = 4065
    /\ blockCountOf(tx[1]) = 2
    /\ Len(tx) = 4

compressedSizeOf(frame) == decodeInt16(frame, 7)

checksumOf(frame) == frame[12]

\* C29: every ProgramBlock command carries rawSize = the number of raw
\* bytes of its block, checksum = the sum of the raw bytes of the block
\* modulo 256, and compressedSize = the exact number of compressed bytes
\* carried in that command.
C29_ProgramBlockFields ==
    op = "programDevice" =>
        \A k \in 2..Len(tx) :
            cmdOf(tx[k]) = ProgramBlockCmd =>
                LET b == blockOf(k - 2)
                IN /\ rawSizeOf(tx[k]) = Len(b)
                   /\ checksumOf(tx[k]) = SumRange(b, 1, Len(b)) % 256
                   /\ compressedSizeOf(tx[k]) = Len(carriedOf(tx[k]))
                   /\ Len(payloadOf(tx[k])) = 2 + 7 + compressedSizeOf(tx[k])

C29_Witness ==
    /\ op = "programDevice"
    /\ Len(tx) = 3
    /\ cmdOf(tx[3]) = ProgramBlockCmd
    /\ rawSizeOf(tx[2]) = 4064
    /\ compressedSizeOf(tx[2]) = 4068
    /\ rawSizeOf(tx[3]) = 4063
    /\ checksumOf(tx[3]) # checksumOf(tx[2])
    /\ checksumOf(tx[3]) # 0

(***************************************************************************)
(* The progress observations of an upload                                  *)
(***************************************************************************)
\* the bytes of a bitstream of S bytes that its first k blocks hold
sentAfter(k, S) == IF k * 4064 < S THEN k * 4064 ELSE S

\* C30: programDevice emits one progress observation per block, after the
\* ProgramBlock command of that block has been dispatched, and the
\* observation reports the bytes sent so far, that block included, out of
\* the total size.
C30_ProgressAfterDispatch ==
    op = "programDevice" =>
        LET S == Len(pd.bitstreamData)
        IN \A k \in 1..Len(progress) :
              k <= blocksOf(S) =>
                  /\ Len(tx) >= k + 1
                  /\ cmdOf(tx[k + 1]) = ProgramBlockCmd
                  /\ blockIdOf(tx[k + 1]) = k - 1
                  /\ progress[k].done = sentAfter(k, S)
                  /\ progress[k].total = S

\* the observations that report all bytes as sent
finalObservations ==
    { k \in 1..Len(progress) : progress[k].done = progress[k].total }

\* C31: the final progress observation, with bytes sent = total size, is
\* emitted exactly when ProgramComplete was acknowledged with errorCode 0,
\* and after that acknowledgement; an upload that aborts at any step never
\* emits it.
C31_FinalProgressOnSuccess ==
    op = "programDevice" =>
        /\ Cardinality(finalObservations) <= 1
        /\ finalObservations # {} =>
              /\ finalObservations = {Len(progress)}
              /\ cmdOf(tx[Len(tx)]) = ProgramCompleteCmd
              /\ acknowledged(Len(tx))
              /\ result = Return(TRUE)
        /\ (pc = "done" /\ Len(tx) >= 1 /\ cmdOf(tx[Len(tx)]) = ProgramCompleteCmd
               /\ acknowledged(Len(tx))) => finalObservations # {}
        /\ (pc = "done" /\ result.kind = "raise") => finalObservations = {}

C31_Witness ==
    /\ op = "programDevice"
    /\ result = Return(TRUE)
    /\ Len(tx) = 4
    /\ Len(progress) = 3
    /\ progress[3] = [done |-> 4065, total |-> 4065]
    /\ progress[2].done = 4064

(***************************************************************************)
(* The timeout modes                                                       *)
(***************************************************************************)
\* C32: after setFastTimeoutMode(true) the read timeout and the write
\* timeout of the channel both equal the fast probing interval, which is
\* lower than the timeouts of a transport on which fast mode was never
\* enabled; discovery enables it only for the probes of the fast tier.
C32_FastModeLowersBothTimeouts ==
    \A k \in 1..Len(probes) :
        probes[k].ser # NoSerial =>
            /\ probes[k].fast =>
                  /\ probes[k].ser.isFash = "True"
                  /\ probes[k].ser.timeout = SERIAL_FAST_TIMEOUT
                  /\ probes[k].ser.write_timeout = SERIAL_FAST_TIMEOUT
                  /\ probes[k].ser.timeout < initTransport.timeout
                  /\ probes[k].ser.write_timeout < initTransport.write_timeout
            /\ ~probes[k].fast =>
                  /\ probes[k].ser = initTransport
                  /\ probes[k].ser.timeout > SERIAL_FAST_TIMEOUT
                  /\ probes[k].ser.write_timeout > SERIAL_FAST_TIMEOUT
            /\ probes[k].stage \in {"preferred", "fast"} => probes[k].fast
            /\ probes[k].stage = "slow" => ~probes[k].fast

C32_Witness ==
    /\ listDevicesDone
    /\ Len(probes) = 8
    /\ probes[5].fast
    /\ probes[5].ser.write_timeout = 100
    /\ probes[5].outcome = "raise"
    /\ ~probes[8].fast
    /\ probes[8].uri = probes[5].uri
    /\ probes[8].ser.timeout = 10000
    /\ probes[8].outcome = "info"

\* C33: setFastTimeoutMode(enabled) acts on its argument: a call with
\* enabled = false does not lower the timeouts, so after it the read and the
\* write timeout of the channel are the normal interval and not the fast
\* probing interval.
C33_FastModeActsOnArgument ==
    ser.isFash = "False" =>
        /\ ser.timeout # SERIAL_FAST_TIMEOUT
        /\ ser.write_timeout # SERIAL_FAST_TIMEOUT
        /\ ser.timeout >= SERIAL_NORMAL_TIMEOUT
        /\ ser.write_timeout >= SERIAL_NORMAL_TIMEOUT

(***************************************************************************)
(* The channels of the discovery service                                   *)
(***************************************************************************)
\* C34: discovery uses one transport and one channel per probe and never
\* shares a channel between candidates, and every channel a transport
\* opens is closed on every exit path: at no moment are two channels open,
\* and none is open after listDevices, queryDevice or
\* queryDeviceOrGetCached has returned or failed.
C34_OneChannelAlwaysClosed ==
    /\ channels.peak <= 1
    /\ sop \in {"none", "done"} => channels.open = 0

(***************************************************************************)
(* Responses are not matched to requests                                   *)
(***************************************************************************)
\* the number of body bytes the fromBytes of a response class reads
layoutSize(responseClass) ==
    CASE responseClass = "FGeneric_Response" -> 4
      [] responseClass = "FQueryDevicePacket_Response" -> 1 + 4 + 8
      [] responseClass = "QueryBitstreamFlash_Response" -> 4 + 4 + 4 + 4 + 1

\* writeCommand has read a well-framed response with a non-empty body
framedResponseRead ==
    /\ pc = "reply"
    /\ cmd.responseClass # "None"
    /\ Len(rxlog) = ncmd
    /\ ncmd >= 1
    /\ rxlog[ncmd].frame = "data"
    /\ Len(payloadOf(rxraw)) > 2

\* the response that writeCommand returns is of the class asked for and
\* carries the command id and the counter of the frame read
returnedUnmatched ==
    /\ ret.kind = "response"
    /\ ret.class = cmd.responseClass
    /\ ret.cmd = rxraw[4]
    /\ ret.counter = rxraw[5]

\* C35 as stated: a well-framed response with a non-empty body is decoded as
\* the response type the caller asked for and returned, also when its
\* commandId or counter differs from the command just sent, with the
\* received commandId and counter copied unchecked into the response.
C35_AnyBodyReturned ==
    framedResponseRead => returnedUnmatched

\* C35, amended: a well-framed response whose body is at least as long as
\* the layout of the response type the caller asked for is decoded as that
\* type and returned, also when its commandId or counter differs from the
\* command just sent, with the received commandId and counter copied
\* unchecked; a shorter non-empty body ends in the decoder's IndexError.
C35_ResponseNotMatched ==
    framedResponseRead =>
        IF Len(payloadOf(rxraw)) - 2 >= layoutSize(cmd.responseClass)
        THEN returnedUnmatched
        ELSE ret = IndexError

C35_Witness ==
    /\ framedResponseRead
    /\ op = "clearFlash"
    /\ rxraw[4] = UnkownCmd
    /\ rxraw[4] # cmd.id
    /\ rxraw[5] # counter
    /\ ret.kind = "response"
    /\ ret.cmd = UnkownCmd
    /\ ret.counter = (counter + 1) % 256
    /\ ret.errorCode = 0

(***************************************************************************)
(* The counter of failed exchanges (SpecCommand)                           *)
(***************************************************************************)
\* C36: the counter advances exactly once per writeCommand call whatever
\* the outcome: also when the call ends in no response, a checksum error or
\* a rejected oversized payload the counter keeps its advanced value, so the
\* next command on the link never carries the counter value of the exchange
\* before it.
C36_CounterAdvancesOncePerCall ==
    [][ /\ ncmd' = ncmd + 1 => counter' = (counter + 1) % 256
        /\ ncmd' # ncmd + 1 => counter' = counter
        /\ Len(tx') > Len(tx) => tx'[Len(tx')][5] = (counter + 1) % 256
        /\ \A k \in 1..(Len(wire') - 1) :
              \E d \in 1..MaxDirectCalls : wire'[k + 1] = (wire'[k] + d) % 256 ]_vars

C36_Witness ==
    /\ wire = <<255, 1>>
    /\ counter = 1
    /\ callsLeft = 0
    /\ pc = "done"
    /\ result = Raise("Exception", "No response")

(***************************************************************************)
(* queryDeviceOrGetCached and the cache (SpecService)                      *)
(***************************************************************************)
\* a queryDeviceOrGetCached call, from its entry to its return or raise
cachedQueryStep == sop = "none" /\ sop' = "done"

\* the call sent a QueryDevice to the device behind the uri
queried == Len(probes') = Len(probes) + 1

\* the call returned the entry the cache holds for a uri
cachedHit ==
    \E uri \in DOMAIN deviceCache : sresult' = Return(deviceCache[uri])

\* the call raised as serial.Serial could not open the port of an uncached uri
openFailed ==
    \E uri \in QueriedUris \ DOMAIN deviceCache :
        /\ createTransportForUri(uri).kind = "raise"
        /\ sresult' = createTransportForUri(uri)

\* the call returned 0 for an uncached uri whose protocol has no transport
noTransport ==
    \E uri \in QueriedUris \ DOMAIN deviceCache :
        /\ createTransportForUri(uri) = Return(None)
        /\ sresult' = Return(int(0))

\* the call queried an uncached uri and cached the DeviceInfo, if it got one
missQueried ==
    LET q == probes'[Len(probes')]
    IN /\ q.uri \notin DOMAIN deviceCache
       /\ q.uri \in DOMAIN deviceCache' <=> q.outcome = "info"
       /\ q.outcome = "info" => /\ sresult'.kind = "return"
                                /\ deviceCache'[q.uri] = sresult'.value
       /\ DOMAIN deviceCache' \subseteq DOMAIN deviceCache \cup {q.uri}
       /\ \A u \in DOMAIN deviceCache :
             u \in DOMAIN deviceCache' /\ deviceCache'[u] = deviceCache[u]

probesOf(uri, stage) ==
    { k \in 1..Len(probes) : probes[k].uri = uri /\ probes[k].stage = stage }

\* C38: listDevices terminates when every probe terminates: a call probes
\* each candidate uri at most once in pass 1 and at most once in each timeout
\* tier of pass 2, so it makes at most three probes per candidate; a running
\* call always comes to its return or raise, and after that no probe is made
\* for it.
C38_ListDevicesTerminates ==
    /\ [](ld.stage # "none" =>
            /\ \A k \in 1..Len(probes) :
                  /\ probes[k].stage \in {"preferred", "fast", "slow"}
                  /\ \E j \in 1..Len(ld.deviceUris) : probes[k].uri = ld.deviceUris[j]
                  /\ Cardinality(probesOf(probes[k].uri, probes[k].stage)) = 1
            /\ Len(probes) <= 3 * Len(ld.deviceUris))
    /\ [][sop = "done" => probes' = probes \/ probes' = <<>>]_vars
    /\ (sop = "listDevices") ~> (sop = "done")

C38_Witness ==
    /\ listDevicesDone
    /\ sresult.kind = "return"
    /\ Len(probes) = 8
    /\ \A stage \in {"preferred", "fast", "slow"} :
          Cardinality(probesOf(uriOf(<<"/dev/ttyACM", "1">>), stage)) = 1

(***************************************************************************)
(* Byte addition (SpecAdd)                                                 *)
(***************************************************************************)
\* C39: for all a and b in 0..255, _adduint8(a, b) returns (a + b) mod 256,
\* a value in 0..255.
C39_AddUint8IsMod256 ==
    uint8sum.called =>
        /\ uint8sum.res = (uint8sum.a + uint8sum.b) % 256
        /\ uint8sum.res \in 0..255

====
